---- MODULE Spec2Model ----
(***************************************************************************)
(* Model of the nickname Store (src/src/storage.py, class StorageService): *)
(* an insertion-ordered two-level dict  group_id -> (user_id -> entry),    *)
(* persisted as one JSON document by "write <file>.tmp, then os.replace".  *)
(*                                                                         *)
(* A Python dict keeps insertion order, so a dict is a sequence of         *)
(* [k, v] pairs.  A file is [exists, text]; text is the sequence of chunks *)
(* json.dump hands to write(): "{", one member per group, "}".  A strict   *)
(* prefix of a document is what a torn write leaves behind, and the parser *)
(* rejects it.  Dict keys go through str() on save and int() on load,      *)
(* modelled on character sequences.  added_at is datetime.now().isoformat()*)
(* and is compared as a string: it is modelled as the sequence of the      *)
(* fixed-width fields isoformat() prints, the microsecond field being left *)
(* out when it is zero.                                                    *)
(*                                                                         *)
(* Environment assumptions: the wall clock never goes backwards (it may    *)
(* stand still between two calls); ids are Python ints (not bools);        *)
(* os.replace is atomic; one call runs at a time.                          *)
(***************************************************************************)
EXTENDS Integers, Sequences, FiniteSets, TLC

\* ------------------------------------------------------------------ bounds

\* The wall clock reads 0..MaxClock ticks.
MaxClock == 2

\* A group of a hand-made file holds at most MaxEntries entries.
MaxEntries == 2

\* At most MaxCalls mutating calls (add, update, remove) get to save in one run.
MaxCalls == 2

\* The same bound where _save_data is followed step by step.
MaxSaves == 1

\* MAX_NICKNAME_LENGTH of validation.py.
MAX_NICKNAME_LENGTH == 50

\* max_retries of _save_data and of _load_data.
max_retries == 3

GroupIds == {-1, 2}
UserIds == {1, 2}
Usernames == {"alice"}
\* The nicknames add_nickname is called with, and those of update_nickname.
Nicknames == {"Ally"}
NewNicknames == {"Al"}

\* Ticks per second of the modelled clock: 0 is a whole second, whose
\* isoformat() has no microsecond field.
Micros == {0, 1}

\* --------------------------------------------------------- Python builtins

Digit == <<"0", "1", "2", "3", "4", "5", "6", "7", "8", "9">>

RECURSIVE NatStr(_)
NatStr(n) == IF n < 10 THEN <<Digit[n + 1]>>
             ELSE NatStr(n \div 10) \o <<Digit[(n % 10) + 1]>>

\* A save that writes the key without its sign.
str_unsigned(i) == IF i < 0 THEN NatStr(-i) ELSE NatStr(i)

\* str(i) for an int, as at storage.py:132,135.
str(i) == IF i < 0 THEN <<"-">> \o NatStr(-i) ELSE NatStr(i)

DigitVal(c) == CHOOSE d \in 0..9 : Digit[d + 1] = c

IsDigits(s) == Len(s) > 0 /\ \A i \in 1..Len(s) : \E d \in 0..9 : Digit[d + 1] = s[i]

RECURSIVE DigitsVal(_)
DigitsVal(s) == IF Len(s) = 0 THEN 0
                ELSE 10 * DigitsVal(SubSeq(s, 1, Len(s) - 1)) + DigitVal(s[Len(s)])

\* int(s) raises ValueError unless s is an optional sign and decimal digits
\* (surrounding blanks and underscores are not modelled).
IsInt(s) == /\ Len(s) > 0
            /\ IF s[1] \in {"-", "+"} THEN IsDigits(Tail(s)) ELSE IsDigits(s)

\* int(s) for an s that parses, as at storage.py:68,77.
int(s) == IF s[1] = "-" THEN 0 - DigitsVal(Tail(s))
          ELSE IF s[1] = "+" THEN DigitsVal(Tail(s))
          ELSE DigitsVal(s)

\* datetime.now().isoformat() at clock tick t: the seconds field, then the
\* microseconds field unless it is zero.
isoformat(t) == IF t % Cardinality(Micros) = 0
                THEN <<t \div Cardinality(Micros)>>
                ELSE <<t \div Cardinality(Micros), t % Cardinality(Micros)>>

\* Python's str < str on two timestamps: lexicographic, a proper prefix first.
RECURSIVE StrLess(_, _)
StrLess(a, b) == IF Len(b) = 0 THEN FALSE
                 ELSE IF Len(a) = 0 THEN TRUE
                 ELSE IF a[1] # b[1] THEN a[1] < b[1]
                 ELSE StrLess(Tail(a), Tail(b))

\* dict operations on a sequence of [k, v] pairs in insertion order.
DictKeys(d) == {d[i].k : i \in 1..Len(d)}

DictHas(d, key) == \E i \in 1..Len(d) : d[i].k = key

DictIndex(d, key) == CHOOSE i \in 1..Len(d) : d[i].k = key

DictGet(d, key) == d[DictIndex(d, key)].v

\* d[key] = val: in place when the key is present, appended otherwise.
DictSet(d, key, val) ==
    IF DictHas(d, key)
    THEN [d EXCEPT ![DictIndex(d, key)] = [k |-> key, v |-> val]]
    ELSE Append(d, [k |-> key, v |-> val])

\* del d[key]
DictDel(d, key) ==
    LET i == DictIndex(d, key)
    IN SubSeq(d, 1, i - 1) \o SubSeq(d, i + 1, Len(d))

\* list(d.values())
DictValues(d) == [i \in 1..Len(d) |-> d[i].v]

\* A sort that is not stable: of two equal timestamps the later entry goes first.
RECURSIVE SortInsert_unstable(_, _)
SortInsert_unstable(sorted, e) ==
    IF Len(sorted) = 0 THEN <<e>>
    ELSE IF ~StrLess(sorted[Len(sorted)].added_at, e.added_at)
         THEN Append(SortInsert_unstable(SubSeq(sorted, 1, Len(sorted) - 1), e),
                     sorted[Len(sorted)])
         ELSE Append(sorted, e)

\* list.sort(key=lambda x: x.added_at): stable, ascending in the str order.
RECURSIVE SortInsert(_, _)
SortInsert(sorted, e) ==
    IF Len(sorted) = 0 THEN <<e>>
    ELSE IF StrLess(e.added_at, sorted[Len(sorted)].added_at)
         THEN Append(SortInsert(SubSeq(sorted, 1, Len(sorted) - 1), e), sorted[Len(sorted)])
         ELSE Append(sorted, e)

RECURSIVE SortByAddedAt(_)
SortByAddedAt(es) ==
    IF Len(es) = 0 THEN <<>>
    ELSE SortInsert(SortByAddedAt(SubSeq(es, 1, Len(es) - 1)), es[Len(es)])

\* ------------------------------------------------------------ the records

NicknameEntry(uid, uname, nick, at) ==
    [user_id |-> uid, username |-> uname, nickname |-> nick, added_at |-> at]

required_fields == {"user_id", "username", "nickname", "added_at"}

\* ------------------------------------------------------------ JSON text

\* What json.dump writes, chunk by chunk: "{", one member per group, "}".
Open == [t |-> "{"]

Close == [t |-> "}"]

Member(key, val) == [t |-> "member", key |-> key, val |-> val]

\* A JSON object value: a group's members in order, or a record's fields.
JObject(x) == [ty |-> "object", of |-> x]

\* isinstance(v, dict) at storage.py:69,78.
IsDict(v) == v.ty = "object"

\* dataclasses.asdict(entry), storage.py:135.
asdict(entry) == JObject(entry)

\* A json.dump with sort_keys: the users of a group in the order of their ids.
SerializeGroup_sorted(g) ==
    Member(str(g.k),
           JObject([i \in 1..Len(g.v) |->
                       [key |-> str(SortSeq(g.v, LAMBDA a, b : a.k < b.k)[i].k),
                        val |-> asdict(SortSeq(g.v, LAMBDA a, b : a.k < b.k)[i].v)]]))

\* The dict _save_data builds (storage.py:130-138), as json.dump writes it
\* (storage.py:143): string keys, groups and users in dict order.
SerializeGroup(g) ==
    Member(str(g.k),
           JObject([i \in 1..Len(g.v) |-> [key |-> str(g.v[i].k), val |-> asdict(g.v[i].v)]]))

Serialize(d) == <<Open>> \o [i \in 1..Len(d) |-> SerializeGroup(d[i])] \o <<Close>>

NoFile == [exists |-> FALSE, text |-> <<>>]

FileOf(text) == [exists |-> TRUE, text |-> text]

\* json.load accepts a text (storage.py:59) that is a whole document.
IsJson(text) ==
    /\ Len(text) >= 2
    /\ text[1] = Open
    /\ text[Len(text)] = Close
    /\ \A i \in 2..(Len(text) - 1) : text[i].t = "member"

\* raw_data.items() of a document: its members in file order.
Members(text) == SubSeq(text, 2, Len(text) - 1)

\* A load whose try block is around the loop: the first bad entry ends the group.
RECURSIVE ConvertEntries_abort(_, _)
ConvertEntries_abort(items, acc) ==
    IF Len(items) = 0 THEN acc
    ELSE LET it == items[1]
             ok == /\ IsInt(it.key)
                   /\ IsDict(it.val)
                   /\ required_fields \subseteq DOMAIN it.val.of
                   /\ DOMAIN it.val.of \subseteq required_fields
         IN IF ok THEN ConvertEntries_abort(Tail(items), DictSet(acc, int(it.key), it.val.of))
            ELSE acc

\* storage.py:75-91: the entries of one group; a bad entry is skipped alone.
RECURSIVE ConvertEntries(_, _)
ConvertEntries(items, acc) ==
    IF Len(items) = 0 THEN acc
    ELSE LET it == items[1]
             ok == /\ IsInt(it.key)
                   /\ IsDict(it.val)
                   /\ required_fields \subseteq DOMAIN it.val.of
                   /\ DOMAIN it.val.of \subseteq required_fields
         IN ConvertEntries(Tail(items),
                           IF ok THEN DictSet(acc, int(it.key), it.val.of) ELSE acc)

\* A load that gives up at the first group it cannot take.
RECURSIVE ConvertGroups_abort(_, _)
ConvertGroups_abort(members, acc) ==
    IF Len(members) = 0 THEN acc
    ELSE LET m == members[1]
             ok == IsInt(m.key) /\ IsDict(m.val)
         IN IF ok
            THEN ConvertGroups_abort(Tail(members),
                                     DictSet(acc, int(m.key), ConvertEntries(m.val.of, <<>>)))
            ELSE acc

\* A load that keeps the dict a group id already has and adds to it.
RECURSIVE ConvertGroups_merge(_, _)
ConvertGroups_merge(members, acc) ==
    IF Len(members) = 0 THEN acc
    ELSE LET m == members[1]
             ok == IsInt(m.key) /\ IsDict(m.val)
         IN ConvertGroups_merge(Tail(members),
                                IF ok
                                THEN DictSet(acc, int(m.key),
                                             ConvertEntries(m.val.of,
                                                            IF DictHas(acc, int(m.key))
                                                            THEN DictGet(acc, int(m.key))
                                                            ELSE <<>>))
                                ELSE acc)

\* storage.py:66-94: every group of the document; a bad group is skipped
\* whole, a good one replaces self._data[group_id] by a fresh dict.
RECURSIVE ConvertGroups(_, _)
ConvertGroups(members, acc) ==
    IF Len(members) = 0 THEN acc
    ELSE LET m == members[1]
             ok == IsInt(m.key) /\ IsDict(m.val)
         IN ConvertGroups(Tail(members),
                          IF ok
                          THEN DictSet(acc, int(m.key), ConvertEntries(m.val.of, <<>>))
                          ELSE acc)

\* One attempt of _load_data whose read succeeds (storage.py:57-97, 99-103):
\* no file or no JSON gives the empty dict.
LoadData(f) ==
    IF f.exists /\ IsJson(f.text) THEN ConvertGroups(Members(f.text), <<>>) ELSE <<>>

\* _load_data (storage.py:50-120) when the read of attempt i ends as outs[i]:
\* "ok", or "ioerror" (IOError, OSError, PermissionError).  A decode error
\* after the first attempt is only logged and the loop goes on.
RECURSIVE LoadAttempts(_, _, _)
LoadAttempts(f, outs, attempt) ==
    IF attempt >= max_retries THEN <<>>
    ELSE IF outs[attempt + 1] = "ioerror"
         THEN IF attempt < max_retries - 1 THEN LoadAttempts(f, outs, attempt + 1) ELSE <<>>
         ELSE IF f.exists /\ ~IsJson(f.text) /\ attempt > 0
              THEN LoadAttempts(f, outs, attempt + 1)
              ELSE LoadData(f)

_load_data(f, outs) == LoadAttempts(f, outs, 0)

ReadOutcomes == [1..max_retries -> {"ok", "ioerror"}]

\* ------------------------------------------------------------- the reads

\* has_nickname, storage.py:357-369.
has_nickname(d, g, u) == DictHas(d, g) /\ DictHas(DictGet(d, g), u)

None == [user_id |-> 0, username |-> "", nickname |-> "", added_at |-> <<>>]

\* get_nickname, storage.py:230-244 (None when absent).
get_nickname(d, g, u) ==
    IF ~DictHas(d, g) THEN None
    ELSE IF DictHas(DictGet(d, g), u) THEN DictGet(DictGet(d, g), u) ELSE None

\* A listing keyed by added_at: of the entries with one timestamp it keeps
\* the first.
get_all_nicknames_by_time(d, g) ==
    IF ~DictHas(d, g) THEN <<>>
    ELSE LET es == DictValues(DictGet(d, g))
             first == {i \in 1..Len(es) : \A j \in 1..(i - 1) : es[j].added_at # es[i].added_at}
             kept == SelectSeq([i \in 1..Len(es) |-> [at |-> i, e |-> es[i]]],
                               LAMBDA x : x.at \in first)
         IN SortByAddedAt([i \in 1..Len(kept) |-> kept[i].e])

\* get_all_nicknames, storage.py:246-262.
get_all_nicknames(d, g) ==
    IF ~DictHas(d, g) THEN <<>> ELSE SortByAddedAt(DictValues(DictGet(d, g)))

\* get_group_count, storage.py:371-384.
get_group_count(d, g) == IF ~DictHas(d, g) THEN 0 ELSE Len(DictGet(d, g))

\* ------------------------------------------------------------- the writes

\* An add_nickname without the check of storage.py:200.
add_refused_unchecked(d, g, u, username, nickname) == username = "" \/ nickname = ""

\* What stops add_nickname before it changes anything (storage.py:184-202).
add_refused(d, g, u, username, nickname) ==
    username = "" \/ nickname = "" \/ has_nickname(d, g, u)

\* The line add_nickname logs when it returns False (storage.py:189,193,201).
add_why(d, g, u, username, nickname) ==
    IF username = "" THEN "Invalid username"
    ELSE IF nickname = "" THEN "Invalid nickname"
    ELSE "already has nickname"

\* An add_nickname that keys the entry by user alone: it lands in every group.
add_data_shared(d, g, u, username, nickname, now) ==
    LET d1 == IF DictHas(d, g) THEN d ELSE DictSet(d, g, <<>>)
    IN [i \in 1..Len(d1) |->
           [k |-> d1[i].k,
            v |-> DictSet(d1[i].v, u, NicknameEntry(u, username, nickname, isoformat(now)))]]

\* An add_nickname that stamps its record with the whole second.
add_data_whole_seconds(d, g, u, username, nickname, now) ==
    LET d1 == IF DictHas(d, g) THEN d ELSE DictSet(d, g, <<>>)
    IN DictSet(d1, g, DictSet(DictGet(d1, g), u,
                              NicknameEntry(u, username, nickname,
                                            <<now \div Cardinality(Micros)>>)))

\* self._data after storage.py:196-212.
add_data(d, g, u, username, nickname, now) ==
    LET d1 == IF DictHas(d, g) THEN d ELSE DictSet(d, g, <<>>)
    IN DictSet(d1, g, DictSet(DictGet(d1, g), u,
                              NicknameEntry(u, username, nickname, isoformat(now))))

\* What stops update_nickname (storage.py:278-288).
update_refused(d, g, u, new_nickname) == new_nickname = "" \/ ~has_nickname(d, g, u)

\* The line update_nickname logs when it returns False (storage.py:283,287).
update_why(d, g, u, new_nickname) ==
    IF new_nickname = "" THEN "Invalid new_nickname" ELSE "No existing nickname"

\* An update_nickname that assigns the username field as well.
update_data_clobber(d, g, u, new_nickname) ==
    DictSet(d, g, DictSet(DictGet(d, g), u,
                          [DictGet(DictGet(d, g), u) EXCEPT !.nickname = new_nickname,
                                                            !.username = new_nickname]))

\* self._data after storage.py:291-293: the entry object is changed in place.
update_data(d, g, u, new_nickname) ==
    DictSet(d, g, DictSet(DictGet(d, g), u,
                          [DictGet(DictGet(d, g), u) EXCEPT !.nickname = new_nickname]))

\* What stops remove_nickname (storage.py:324-330).
remove_refused(d, g, u) == ~has_nickname(d, g, u)

\* A remove_nickname without the cleanup of storage.py:338-339.
remove_data_keep(d, g, u) == DictSet(d, g, DictDel(DictGet(d, g), u))

\* A remove_nickname that deletes only a group's last entry.
remove_data_last(d, g, u) ==
    IF Len(DictGet(d, g)) = 1 THEN DictDel(d, g) ELSE d

\* A remove_nickname that deletes the user's whole group.
remove_data_group(d, g, u) == DictDel(d, g)

\* self._data after storage.py:335-339.
remove_data(d, g, u) ==
    LET rest == DictDel(DictGet(d, g), u)
    IN IF Len(rest) = 0 THEN DictDel(d, g) ELSE DictSet(d, g, rest)

\* ------------------------------------------------------------- _save_data

\* How one attempt of _save_data ends: "ok"; an OSError raised by open, by a
\* write or by os.replace; "value" for a TypeError/ValueError of json.dump.
AttemptOutcomes == {"ok", "open", "write", "replace", "value"}

SaveOutcomes == [1..max_retries -> AttemptOutcomes]

\* The loop of _save_data (storage.py:127-167) when attempt i ends as outs[i]:
\* it returns at the first attempt that succeeds (True) or raises anything
\* but an OSError (False), and after the last attempt otherwise (False).
LastAttempt(outs) ==
    IF \E i \in 1..max_retries : outs[i] \in {"ok", "value"}
    THEN CHOOSE i \in 1..max_retries :
            /\ outs[i] \in {"ok", "value"}
            /\ \A j \in 1..(i - 1) : outs[j] \notin {"ok", "value"}
    ELSE max_retries

\* The attempts of the run that got to open the temporary file.
Opened(outs) == {i \in 1..LastAttempt(outs) : outs[i] # "open"}

\* What the run left of the temporary file: "kept": no attempt opened it;
\* "torn": cut short; "whole": written but not renamed; "renamed": moved over
\* the target.
LeftBehind(outs) ==
    IF Opened(outs) = {} THEN "kept"
    ELSE LET o == outs[CHOOSE i \in Opened(outs) : \A j \in Opened(outs) : j <= i]
         IN CASE o = "ok" -> "renamed"
              [] o = "replace" -> "whole"
              [] OTHER -> "torn"

\* Every way a run of _save_data can end: what it returns, and what it left.
SaveRuns ==
    {[ok |-> outs[LastAttempt(outs)] = "ok", left |-> LeftBehind(outs)] : outs \in SaveOutcomes}

\* A save that opens the target for appending: the document lands after
\* whatever the file held.
FileAfter_append(run, d, f) ==
    IF run.left = "renamed" THEN FileOf(f.text \o Serialize(d)) ELSE f

\* A save that writes the target file itself: a failed write leaves it cut short.
FileAfter_inplace(run, d, f) ==
    IF run.left = "renamed" THEN FileOf(Serialize(d))
    ELSE IF run.left = "torn" THEN FileOf(SubSeq(Serialize(d), 1, Len(Serialize(d)) - 1))
    ELSE f

\* The target file after a run of _save_data on d: os.replace puts the whole
\* document there, and nothing else touches it (storage.py:141-146).
FileAfter(run, d, f) == IF run.left = "renamed" THEN FileOf(Serialize(d)) ELSE f

\* What a failed attempt leaves in the temporary file: a document cut short,
\* or a whole one never renamed.  No call reads it (open() truncates it
\* first), so the whole-call actions keep it as one value; SpecSave below
\* follows its content write by write.
Debris == FileOf(<<[t |-> "left behind"]>>)

\* The temporary file after a run of _save_data (storage.py:141-146).
TmpAfter(run, t) ==
    CASE run.left = "kept" -> t
      [] run.left = "renamed" -> NoFile
      [] OTHER -> Debris

\* --------------------------------------------------------------- the state

VARIABLES
    data,      \* self._data, the in-memory dict
    file,      \* the content of self.storage_file
    tmp,       \* the content of self.storage_file + ".tmp"
    clock,     \* the last reading of the wall clock, in ticks
    pc,        \* where the running call stands: "idle", or a step of _save_data
    attempt,   \* the loop variable of _save_data
    ret,       \* what the last call returned: "True", "False"; "none" while one runs
    log,       \* the last line the last call logged: how it ended, for which group and user
    saved,     \* what the last _save_data returned: "ok", "failed"; "none" before the first
    durable,   \* the file as the constructor found it or as the last successful save left it
    fellBack,  \* the constructor gave up reading the file, and no save has succeeded since
    calls,     \* the number of mutating calls that got past their checks
    tasks      \* the commands in flight on the event loop, one coroutine each

\* A log line: its text without the ids, and the ids it names.
Line(text, g, u) == [line |-> text, gid |-> g, uid |-> u]

vars == <<data, file, tmp, clock, pc, attempt, ret, log, saved, durable, fellBack, calls, tasks>>

\* The coroutines the dispatcher may have in flight at once.
TaskIds == {1, 2}

\* A slot of the dispatcher that holds no command.
NoTask == [pc |-> "free"]

\* No command is in flight: the Store is used by direct calls.
NoTasks == [t \in TaskIds |-> NoTask]

\* The files a Store may be constructed on: none, a text that is no JSON, and
\* a document an earlier run wrote.
Entry0(u, nick, t) == NicknameEntry(u, "alice", nick, isoformat(t))

InitFiles ==
    { NoFile,
      FileOf(<<[t |-> "not valid json"]>>),
      FileOf(Serialize(<<[k |-> 2, v |-> <<[k |-> 3, v |-> Entry0(3, "Ally", 0)],
                                           [k |-> 2, v |-> Entry0(2, "Ally", 1)]>>]>>)) }

\* Every user a Store may hold: those the calls name and the one of the file.
Users == UserIds \cup {3}

\* StorageService.__init__ (storage.py:32-42) on a file f whose reads end as outs.
Construct(f, outs) ==
    /\ data = _load_data(f, outs)
    /\ fellBack = (f.exists /\ \A i \in 1..max_retries : outs[i] = "ioerror")
    /\ durable = f
    /\ pc = "idle"
    /\ attempt = 0
    /\ ret = "True"
    /\ log = Line("Successfully loaded data", 0, 0)
    /\ saved = "none"

Init ==
    /\ file \in InitFiles
    /\ tmp = NoFile
    /\ clock = 1
    /\ calls = 0
    /\ tasks = NoTasks
    /\ \E outs \in ReadOutcomes : Construct(file, outs)

\* A refusal that still enters _save_data.
Refuse_saving(why) ==
    /\ ret' = "False"
    /\ log' = why
    /\ pc' = "open"
    /\ attempt' = 0
    /\ UNCHANGED <<data, file, tmp, clock, saved, durable, fellBack, calls>>

\* A call that logs why and returns False before it changes anything.
Refuse(why) ==
    /\ ret' = "False"
    /\ log' = why
    /\ UNCHANGED <<data, file, tmp, clock, pc, attempt, saved, durable, fellBack, calls>>

\* A call that returns what _save_data returned.
SaveAndReturn_strict(d, done) ==
    /\ log' = done
    /\ data' = d
    /\ calls' = calls + 1
    /\ UNCHANGED <<pc, attempt>>
    /\ \E r \in SaveRuns :
          /\ saved' = IF r.ok THEN "ok" ELSE "failed"
          /\ ret' = IF r.ok THEN "True" ELSE "False"
          /\ fellBack' = (fellBack /\ ~r.ok)
          /\ tmp' = TmpAfter(r, tmp)
          /\ file' = FileAfter(r, d, file)
          /\ durable' = IF r.ok THEN file' ELSE durable

\* A save that writes only the group the call changed into the document the
\* file holds.
SaveAndReturn_delta(d, done) ==
    /\ log' = done
    /\ data' = d
    /\ calls' = calls + 1
    /\ UNCHANGED <<pc, attempt>>
    /\ \E r \in SaveRuns :
          /\ saved' = IF r.ok THEN "ok" ELSE "failed"
          /\ ret' = "True"
          /\ fellBack' = (fellBack /\ ~r.ok)
          /\ tmp' = TmpAfter(r, tmp)
          /\ file' = FileAfter(r, IF DictHas(d, done.gid)
                                  THEN DictSet(LoadData(file), done.gid, DictGet(d, done.gid))
                                  ELSE IF DictHas(LoadData(file), done.gid)
                                       THEN DictDel(LoadData(file), done.gid)
                                       ELSE LoadData(file),
                            file)
          /\ durable' = IF r.ok THEN file' ELSE durable

\* The rest of a mutating call once self._data is changed: _save_data runs,
\* and the call returns True whatever it returned (storage.py:214-224).
SaveAndReturn(d, done) ==
    /\ log' = done
    /\ data' = d
    /\ calls' = calls + 1
    /\ UNCHANGED <<pc, attempt>>
    /\ \E r \in SaveRuns :
          /\ saved' = IF r.ok THEN "ok" ELSE "failed"
          /\ ret' = "True"
          /\ fellBack' = (fellBack /\ ~r.ok)
          /\ tmp' = TmpAfter(r, tmp)
          /\ file' = FileAfter(r, d, file)
          /\ durable' = IF r.ok THEN file' ELSE durable

\* The wall clock does not go backwards: a reading is the last one or later.
Readings == {t \in 0..MaxClock : t >= clock /\ t <= clock + 1}

\* add_nickname, storage.py:169-228; now is what datetime.now() returns.
add_nickname(g, u, username, nickname) ==
    /\ pc = "idle"
    /\ calls < MaxCalls
    /\ IF add_refused(data, g, u, username, nickname)
       THEN Refuse(Line(add_why(data, g, u, username, nickname), g, u))
       ELSE \E now \in Readings :
               /\ clock' = now
               /\ SaveAndReturn(add_data(data, g, u, username, nickname, now), Line("Added nickname", g, u))

\* update_nickname, storage.py:264-309.
update_nickname(g, u, new_nickname) ==
    /\ pc = "idle"
    /\ calls < MaxCalls
    /\ IF update_refused(data, g, u, new_nickname)
       THEN Refuse(Line(update_why(data, g, u, new_nickname), g, u))
       ELSE /\ UNCHANGED clock
            /\ SaveAndReturn(update_data(data, g, u, new_nickname), Line("Updated nickname", g, u))

\* remove_nickname, storage.py:311-355.
remove_nickname(g, u) ==
    /\ pc = "idle"
    /\ calls < MaxCalls
    /\ IF remove_refused(data, g, u)
       THEN Refuse(Line("No nickname to remove", g, u))
       ELSE /\ UNCHANGED clock
            /\ SaveAndReturn(remove_data(data, g, u), Line("Removed nickname", g, u))

\* The process ends and a new one constructs a Store on the same file
\* (storage.py:32-42).
Restart ==
    /\ log' = Line("Successfully loaded data", 0, 0)
    /\ durable' = file
    /\ pc' = "idle"
    /\ attempt' = 0
    /\ ret' = "True"
    /\ saved' = "none"
    /\ UNCHANGED <<file, tmp, clock, calls>>
    /\ \E r \in {[d |-> _load_data(file, outs),
                    fb |-> file.exists /\ \A i \in 1..max_retries : outs[i] = "ioerror"] :
                   outs \in ReadOutcomes} :
          /\ data' = r.d
          /\ fellBack' = r.fb

Next ==
    \/ \E g \in GroupIds, u \in UserIds, n \in Usernames, k \in Nicknames :
          add_nickname(g, u, n, k) /\ UNCHANGED tasks
    \/ \E g \in GroupIds, u \in UserIds, k \in NewNicknames : update_nickname(g, u, k) /\ UNCHANGED tasks
    \/ \E g \in GroupIds, u \in UserIds : remove_nickname(g, u) /\ UNCHANGED tasks
    \/ Restart /\ UNCHANGED tasks

Spec == Init /\ [][Next]_vars

\* ------------------------------------------------- _save_data, step by step

\* A mutating call has changed self._data to d and enters _save_data
\* (storage.py:216, 297, 343).
StartSave(d, done) ==
    /\ data' = d
    /\ pc' = "open"
    /\ attempt' = 0
    /\ ret' = "none"
    /\ log' = done
    /\ calls' = calls + 1
    /\ UNCHANGED <<file, tmp, saved, durable, fellBack>>

\* _save_data returns ok, and the call returns True (storage.py:214-224).
Return(ok) ==
    /\ pc' = "idle"
    /\ attempt' = 0
    /\ ret' = "True"
    /\ saved' = IF ok THEN "ok" ELSE "failed"
    /\ durable' = IF ok THEN file ELSE durable
    /\ fellBack' = (fellBack /\ ~ok)
    /\ UNCHANGED <<data, file, tmp, clock, log, calls>>

\* add_nickname up to its call of _save_data (storage.py:182-216).
add_begin(g, u, username, nickname) ==
    /\ pc = "idle"
    /\ calls < MaxSaves
    /\ IF add_refused(data, g, u, username, nickname)
       THEN Refuse(Line(add_why(data, g, u, username, nickname), g, u))
       ELSE \E now \in Readings :
               /\ clock' = now
               /\ StartSave(add_data(data, g, u, username, nickname, now), Line("Added nickname", g, u))

\* update_nickname up to its call of _save_data (storage.py:276-297).
update_begin(g, u, new_nickname) ==
    /\ pc = "idle"
    /\ calls < MaxSaves
    /\ IF update_refused(data, g, u, new_nickname)
       THEN Refuse(Line(update_why(data, g, u, new_nickname), g, u))
       ELSE /\ UNCHANGED clock
            /\ StartSave(update_data(data, g, u, new_nickname), Line("Updated nickname", g, u))

\* remove_nickname up to its call of _save_data (storage.py:322-343).
remove_begin(g, u) ==
    /\ pc = "idle"
    /\ calls < MaxSaves
    /\ IF remove_refused(data, g, u)
       THEN Refuse(Line("No nickname to remove", g, u))
       ELSE /\ UNCHANGED clock
            /\ StartSave(remove_data(data, g, u), Line("Removed nickname", g, u))

\* open(temp_file, 'w') creates or truncates the temporary file (storage.py:142).
open_temp ==
    /\ pc = "open"
    /\ tmp' = FileOf(<<>>)
    /\ pc' = "write"
    /\ UNCHANGED <<data, file, clock, attempt, ret, log, saved, durable, fellBack, calls>>

\* The strings the utf-8 codec of the file refuses: a lone surrogate, which
\* json.load accepts as an escape and add_nickname accepts as a str
\* (storage.py:142-143, encoding='utf-8', ensure_ascii=False).
Unencodable == {"\\ud800"}

\* Every record of group g can be written.
EncodableGroup(g) ==
    \A j \in 1..Len(g.v) :
        g.v[j].v.username \notin Unencodable /\ g.v[j].v.nickname \notin Unencodable

\* The chunk json.dump writes next (a brace, or one group) can be encoded.
NextChunkEncodable ==
    LET i == Len(tmp.text) + 1
    IN IF i = 1 \/ i >= Len(Serialize(data)) THEN TRUE ELSE EncodableGroup(data[i - 1])

\* A save that writes its chunks into the storage file itself.
write_chunk_target ==
    /\ pc = "write"
    /\ Len(tmp.text) < Len(Serialize(data))
    /\ tmp' = FileOf(Append(tmp.text, Serialize(data)[Len(tmp.text) + 1]))
    /\ file' = tmp'
    /\ pc' = IF Len(tmp'.text) = Len(Serialize(data)) THEN "replace" ELSE "write"
    /\ UNCHANGED <<data, clock, attempt, ret, log, saved, durable, fellBack, calls>>

\* json.dump writes the next chunk; the with block closes the file after the
\* last one (storage.py:142-143).
write_chunk ==
    /\ pc = "write"
    /\ Len(tmp.text) < Len(Serialize(data))
    /\ NextChunkEncodable
    /\ tmp' = FileOf(Append(tmp.text, Serialize(data)[Len(tmp.text) + 1]))
    /\ pc' = IF Len(tmp'.text) = Len(Serialize(data)) THEN "replace" ELSE "write"
    /\ UNCHANGED <<data, file, clock, attempt, ret, log, saved, durable, fellBack, calls>>

\* os.replace(temp_file, self.storage_file) (storage.py:146).
replace ==
    /\ pc = "replace"
    /\ file' = tmp
    /\ tmp' = NoFile
    /\ pc' = "return"
    /\ UNCHANGED <<data, clock, attempt, ret, log, saved, durable, fellBack, calls>>

\* return True (storage.py:147-148).
save_ok ==
    /\ pc = "return"
    /\ Return(TRUE)

\* A save that renames in a finally clause: a write that fails still moves
\* the temporary file over the target.
save_oserror_finally ==
    /\ pc \in {"open", "write", "replace"}
    /\ file' = IF pc = "write" THEN tmp ELSE file
    /\ IF attempt < max_retries - 1
       THEN /\ attempt' = attempt + 1
            /\ pc' = "open"
            /\ UNCHANGED <<data, tmp, clock, ret, log, saved, durable, fellBack, calls>>
       ELSE /\ pc' = "idle"
            /\ attempt' = 0
            /\ ret' = "True"
            /\ saved' = "failed"
            /\ UNCHANGED <<data, tmp, clock, log, durable, fellBack, calls>>

\* A save that tries again after every error and never counts its attempts.
save_oserror_forever ==
    /\ pc \in {"open", "write", "replace"}
    /\ pc' = "open"
    /\ UNCHANGED <<data, file, tmp, clock, attempt, ret, log, saved, durable, fellBack, calls>>

\* open, a write or os.replace raises IOError/OSError (storage.py:150-157):
\* another attempt after a backoff, or False after the last one.
save_oserror ==
    /\ pc \in {"open", "write", "replace"}
    /\ IF attempt < max_retries - 1
       THEN /\ attempt' = attempt + 1
            /\ pc' = "open"
            /\ UNCHANGED <<data, file, tmp, clock, ret, log, saved, durable, fellBack, calls>>
       ELSE Return(FALSE)

\* json.dump raises TypeError/ValueError, or anything else is raised
\* (storage.py:159-165): False at once.
save_valueerror ==
    /\ pc = "write"
    /\ Return(FALSE)

NextSave ==
    \/ \E g \in GroupIds, u \in UserIds, n \in Usernames, k \in Nicknames :
          add_begin(g, u, n, k) /\ UNCHANGED tasks
    \/ \E g \in GroupIds, u \in UserIds, k \in NewNicknames : update_begin(g, u, k) /\ UNCHANGED tasks
    \/ \E g \in GroupIds, u \in UserIds : remove_begin(g, u) /\ UNCHANGED tasks
    \/ open_temp /\ UNCHANGED tasks
    \/ write_chunk /\ UNCHANGED tasks
    \/ replace /\ UNCHANGED tasks
    \/ save_ok /\ UNCHANGED tasks
    \/ save_oserror /\ UNCHANGED tasks
    \/ save_valueerror /\ UNCHANGED tasks
    \/ Restart /\ UNCHANGED tasks

SpecSave == Init /\ [][NextSave]_vars

\* One step of _save_data: a filesystem call that returns or raises.
SaveStep ==
    \/ open_temp
    \/ write_chunk
    \/ replace
    \/ save_ok
    \/ save_oserror
    \/ save_valueerror

\* A process that keeps running: the calls and the steps of their saves.
\* Every filesystem call returns or raises and every backoff sleep ends
\* (storage.py:155), so a save that can take a step takes one.
NextRun ==
    \/ \E g \in GroupIds, u \in UserIds, n \in Usernames, k \in Nicknames :
          add_begin(g, u, n, k) /\ UNCHANGED tasks
    \/ \E g \in GroupIds, u \in UserIds, k \in NewNicknames : update_begin(g, u, k) /\ UNCHANGED tasks
    \/ \E g \in GroupIds, u \in UserIds : remove_begin(g, u) /\ UNCHANGED tasks
    \/ open_temp /\ UNCHANGED tasks
    \/ write_chunk /\ UNCHANGED tasks
    \/ replace /\ UNCHANGED tasks
    \/ save_ok /\ UNCHANGED tasks
    \/ save_oserror /\ UNCHANGED tasks
    \/ save_valueerror /\ UNCHANGED tasks

SpecSaveFair == Init /\ [][NextRun]_vars /\ WF_vars(SaveStep /\ UNCHANGED tasks)

\* json.dump meets a string the file's codec cannot encode: the
\* UnicodeEncodeError is a ValueError, and _save_data returns False
\* (storage.py:159-161).
save_encode_error ==
    /\ pc = "write"
    /\ Len(tmp.text) < Len(Serialize(data))
    /\ ~NextChunkEncodable
    /\ Return(FALSE)

\* A file with a sound group and, after it, a group that holds one record
\* whose nickname is a lone surrogate.
SurrogateFile ==
    FileOf(Serialize(<<[k |-> 2, v |-> <<[k |-> 2, v |-> Entry0(2, "Ally", 1)]>>],
                       [k |-> -1, v |-> <<[k |-> 1, v |-> Entry0(1, "\\ud800", 0)]>>]>>))

InitEncode ==
    /\ file = SurrogateFile
    /\ tmp = NoFile
    /\ clock = 1
    /\ calls = 0
    /\ tasks = NoTasks
    /\ \E outs \in ReadOutcomes : Construct(file, outs)

NextEncode ==
    \/ NextSave
    \/ save_encode_error /\ UNCHANGED tasks

SpecEncode == InitEncode /\ [][NextEncode]_vars

\* A Store constructed on a file that holds no JSON.
Corrupt(f) == f.exists /\ ~IsJson(f.text)

InitCorrupt == Init /\ Corrupt(file)

SpecCorrupt == InitCorrupt /\ [][Next]_vars

\* ------------------------------------------------- _load_data, step by step

\* A JSON value that is no object (a string, a number, a list, null).
NotAnObject == [ty |-> "string", of |-> [text |-> "oops"]]

\* The entries a hand-made file may hold: two that are well formed, one whose
\* key is no integer, one whose value is no object, one without the nickname
\* field, one with a field NicknameEntry does not take, one whose nickname
\* is empty, and one whose key is not the user_id of its record.
EntryPool ==
    { [key |-> str(1), val |-> asdict(Entry0(1, "Ally", 0))],
      [key |-> str(2), val |-> asdict(Entry0(2, "Al", 1))],
      [key |-> <<"x">>, val |-> asdict(Entry0(7, "Ally", 0))],
      [key |-> str(3), val |-> NotAnObject],
      [key |-> str(4), val |-> JObject([user_id |-> 4, username |-> "alice", added_at |-> isoformat(0)])],
      [key |-> str(5), val |-> JObject([user_id |-> 5, username |-> "alice", nickname |-> "Ally",
                                        added_at |-> isoformat(0), extra |-> "more"])],
      [key |-> str(6), val |-> asdict(Entry0(6, "", 0))],
      [key |-> str(7), val |-> asdict(Entry0(2, "Ally", 0))] }

\* The entries of one group of such a file: up to MaxEntries of them, in any order.
EntryLists ==
    UNION { {es \in [1..n -> EntryPool] : \A i, j \in 1..n : es[i] = es[j] => i = j} :
            n \in 0..MaxEntries }

\* What such a file holds beside group 2: nothing, a well-formed group, a
\* group whose value is no object, a group whose key is no integer.
OtherGroups ==
    { <<>>,
      <<Member(str(-1), JObject(<<[key |-> str(1), val |-> asdict(Entry0(1, "Ally", 0))]>>))>>,
      <<Member(str(-1), NotAnObject)>>,
      <<Member(<<"y">>, JObject(<<[key |-> str(1), val |-> asdict(Entry0(1, "Ally", 0))]>>))>> }

\* The files a Store may be constructed on, hand-made ones included: group 2
\* before or after the other group.
Documents ==
    InitFiles
    \cup { FileOf(<<Open>> \o <<Member(str(2), JObject(es))>> \o og \o <<Close>>) :
             es \in EntryLists, og \in OtherGroups }
    \cup { FileOf(<<Open>> \o og \o <<Member(str(2), JObject(es))>> \o <<Close>>) :
             es \in EntryLists, og \in OtherGroups }

\* The ids the entries of Documents name.
LoadedUsers == 1..7

\* Two spellings of group 2 as a key, str(2) and another, in either order.
CollidingKeys == { <<str(2), <<"0", "2">>>>, <<<<"0", "2">>, str(2)>> }

\* The entries under the first of two such keys: none, or one with a key in 1..4.
ShortLists == {<<>>} \cup {<<e>> : e \in {x \in EntryPool : IsInt(x.key) /\ int(x.key) <= 4}}

\* Hand-made files with two keys that int() takes to the same group id.
CollidingDocuments ==
    { FileOf(<<Open, Member(ks[1], JObject(early)), Member(ks[2], JObject(es)), Close>>) :
         ks \in CollidingKeys, early \in ShortLists, es \in EntryLists }

\* __init__ up to its call of _load_data (storage.py:39-42): the map is
\* empty and the loop is at its first attempt.
InitLoad ==
    /\ file \in Documents
    /\ tmp = NoFile
    /\ clock = 1
    /\ calls = 0
    /\ data = <<>>
    /\ pc = "load"
    /\ attempt = 0
    /\ ret = "none"
    /\ log = Line("Initialize the storage service", 0, 0)
    /\ saved = "none"
    /\ durable = file
    /\ fellBack = FALSE
    /\ tasks = NoTasks

\* An attempt finds no file, or reads and converts a document, and returns
\* (storage.py:57-97).  attempt keeps the index of the attempt that returned.
load_ok ==
    /\ pc = "load"
    /\ ~file.exists \/ IsJson(file.text)
    /\ data' = LoadData(file)
    /\ pc' = "idle"
    /\ ret' = "True"
    /\ log' = Line("Successfully loaded data", 0, 0)
    /\ UNCHANGED <<file, tmp, clock, attempt, saved, durable, fellBack, calls>>

\* A load that, after the first attempt, reads a file that is no JSON again
\* and again without counting.
load_decode_error_stuck ==
    /\ pc = "load"
    /\ file.exists /\ ~IsJson(file.text)
    /\ IF attempt = 0
       THEN /\ data' = <<>>
            /\ pc' = "idle"
            /\ ret' = "True"
            /\ log' = Line("Storage file not found or corrupted", 0, 0)
       ELSE /\ log' = Line("Attempt failed to load data", 0, 0)
            /\ UNCHANGED <<data, pc, ret>>
    /\ UNCHANGED <<file, tmp, clock, attempt, saved, durable, fellBack, calls>>

\* json.load raises JSONDecodeError (storage.py:99-105): the first attempt
\* returns with the empty map; a later one logs a warning and falls through
\* to the next turn of the loop, which ends after the last attempt.
load_decode_error ==
    /\ pc = "load"
    /\ file.exists /\ ~IsJson(file.text)
    /\ IF attempt = 0
       THEN /\ data' = <<>>
            /\ pc' = "idle"
            /\ ret' = "True"
            /\ log' = Line("Storage file not found or corrupted", 0, 0)
            /\ UNCHANGED attempt
       ELSE /\ log' = Line("Attempt failed to load data", 0, 0)
            /\ IF attempt < max_retries - 1
               THEN attempt' = attempt + 1 /\ UNCHANGED <<pc, ret>>
               ELSE pc' = "idle" /\ ret' = "True" /\ UNCHANGED attempt
            /\ UNCHANGED data
    /\ UNCHANGED <<file, tmp, clock, saved, durable, fellBack, calls>>

\* open or the read raises IOError/OSError/PermissionError (storage.py:107-115):
\* another attempt after a backoff, or the empty map after the last one.
load_oserror ==
    /\ pc = "load"
    /\ file.exists
    /\ log' = Line("failed to load data due to file system error", 0, 0)
    /\ IF attempt < max_retries - 1
       THEN attempt' = attempt + 1 /\ UNCHANGED <<data, pc, ret, fellBack>>
       ELSE /\ data' = <<>>
            /\ pc' = "idle"
            /\ ret' = "True"
            /\ fellBack' = TRUE
            /\ UNCHANGED attempt
    /\ UNCHANGED <<file, tmp, clock, saved, durable, calls>>

NextLoad ==
    \/ load_ok /\ UNCHANGED tasks
    \/ load_decode_error /\ UNCHANGED tasks
    \/ load_oserror /\ UNCHANGED tasks

SpecLoad == InitLoad /\ [][NextLoad]_vars

\* __init__ on a file with colliding keys.
InitCollide ==
    /\ file \in CollidingDocuments
    /\ tmp = NoFile
    /\ clock = 1
    /\ calls = 0
    /\ data = <<>>
    /\ pc = "load"
    /\ attempt = 0
    /\ ret = "none"
    /\ log = Line("Initialize the storage service", 0, 0)
    /\ saved = "none"
    /\ durable = file
    /\ fellBack = FALSE
    /\ tasks = NoTasks

\* Such a file is JSON, so its load either converts it or fails to read it.
NextCollide ==
    \/ load_ok /\ UNCHANGED tasks
    \/ load_oserror /\ UNCHANGED tasks

SpecCollide == InitCollide /\ [][NextCollide]_vars

\* The constructor runs on: every read returns or raises, and the backoff
\* sleep ends (storage.py:109), so the loop takes its next turn.
SpecLoadFair == SpecLoad /\ WF_vars(NextLoad)

\* ------------------------------------------- calls with arguments of any type

\* An argument of a call: its Python type and, for an int or a str, its value.
IntArg(n) == [ty |-> "int", v |-> n]

StrArg(x) == [ty |-> "str", v |-> x]

\* Ids that are no int: a str, which can be hashed, and a list, which cannot.
StrId == [ty |-> "str", v |-> 0]

ListId == [ty |-> "list", v |-> 0]

NoneName == [ty |-> "NoneType", v |-> ""]

GroupArgs == {IntArg(2), StrId, ListId}

UserArgs == {IntArg(u) : u \in UserIds} \cup {StrId, ListId}

UsernameArgs == {StrArg("alice"), StrArg(""), NoneName}

NicknameArgs == {StrArg("Ally"), StrArg(""), NoneName}

NewNicknameArgs == {StrArg("Al"), StrArg(""), NoneName}

\* isinstance(x, int) at storage.py:184,278,324 (bool, a subclass of int, is
\* not among the arguments).
IsIntArg(x) == x.ty = "int"

\* isinstance(x, str) at storage.py:188,192,282.
IsStrArg(x) == x.ty = "str"

\* hash(x) succeeds: what a dict lookup needs of its key.
Hashable(x) == x.ty # "list"

\* x in d for a key of any type: a key that is no int equals none of the int keys.
InDict(d, x) == IsIntArg(x) /\ DictHas(d, x.v)

\* An add_nickname that makes room for the group before it looks at the names.
add_args_eager(g, u, username, nickname) ==
    /\ pc = "idle"
    /\ IF ~IsIntArg(g) \/ ~IsIntArg(u)
       THEN Refuse(Line("Invalid ID types", 0, 0))
       ELSE IF ~IsStrArg(username) \/ ~IsStrArg(nickname)
       THEN /\ ret' = "False"
            /\ log' = Line("Invalid username", g.v, u.v)
            /\ data' = IF DictHas(data, g.v) THEN data ELSE DictSet(data, g.v, <<>>)
            /\ UNCHANGED <<file, tmp, clock, pc, attempt, saved, durable, fellBack, calls>>
       ELSE calls < MaxSaves /\ add_nickname(g.v, u.v, username.v, nickname.v)

\* add_nickname called with arguments of any type (storage.py:182-228): the
\* type checks come first, then everything add_nickname does with an int
\* pair and two strings.
add_args(g, u, username, nickname) ==
    /\ pc = "idle"
    /\ IF ~IsIntArg(g) \/ ~IsIntArg(u)
       THEN Refuse(Line("Invalid ID types", 0, 0))
       ELSE IF ~IsStrArg(username)
       THEN Refuse(Line("Invalid username", g.v, u.v))
       ELSE IF ~IsStrArg(nickname)
       THEN Refuse(Line("Invalid nickname", g.v, u.v))
       ELSE calls < MaxSaves /\ add_nickname(g.v, u.v, username.v, nickname.v)

\* update_nickname called with arguments of any type (storage.py:276-309).
update_args(g, u, new_nickname) ==
    /\ pc = "idle"
    /\ IF ~IsIntArg(g) \/ ~IsIntArg(u)
       THEN Refuse(Line("Invalid ID types", 0, 0))
       ELSE IF ~IsStrArg(new_nickname)
       THEN Refuse(Line("Invalid new_nickname", g.v, u.v))
       ELSE calls < MaxSaves /\ update_nickname(g.v, u.v, new_nickname.v)

\* remove_nickname called with arguments of any type (storage.py:322-355).
remove_args(g, u) ==
    /\ pc = "idle"
    /\ IF ~IsIntArg(g) \/ ~IsIntArg(u)
       THEN Refuse(Line("Invalid ID types", 0, 0))
       ELSE calls < MaxSaves /\ remove_nickname(g.v, u.v)

\* A read returns: ret is what it returned, or the exception it raised; a
\* read logs nothing and changes nothing.
ReadReturns(result) ==
    /\ ret' = result
    /\ UNCHANGED <<data, file, tmp, clock, pc, attempt, log, saved, durable, fellBack, calls>>

\* get_nickname (storage.py:240-244): "group_id not in self._data" hashes
\* group_id, and .get(user_id) hashes user_id when the group is there.
get_args(g, u) ==
    /\ pc = "idle"
    /\ ReadReturns(
                IF ~Hashable(g) THEN "TypeError"
                ELSE IF ~InDict(data, g) THEN "None"
                ELSE IF ~Hashable(u) THEN "TypeError"
                ELSE IF InDict(DictGet(data, g.v), u) THEN "NicknameEntry" ELSE "None")

\* has_nickname (storage.py:368-369): the same lookups, joined by "and".
has_args(g, u) ==
    /\ pc = "idle"
    /\ ReadReturns(
                IF ~Hashable(g) THEN "TypeError"
                ELSE IF ~InDict(data, g) THEN "False"
                ELSE IF ~Hashable(u) THEN "TypeError"
                ELSE IF InDict(DictGet(data, g.v), u) THEN "True" ELSE "False")

\* get_group_count (storage.py:381-384).
count_args(g) ==
    /\ pc = "idle"
    /\ ReadReturns(IF ~Hashable(g) THEN "TypeError" ELSE "int")

\* A get_all_nicknames on a dict that makes a group for every key it is asked.
get_all_args_creating(g) ==
    /\ pc = "idle"
    /\ ret' = IF ~Hashable(g) THEN "TypeError" ELSE "list"
    /\ data' = IF Hashable(g) /\ ~InDict(data, g) THEN DictSet(data, g.v, <<>>) ELSE data
    /\ UNCHANGED <<file, tmp, clock, pc, attempt, log, saved, durable, fellBack, calls>>

\* get_all_nicknames (storage.py:256-262).
get_all_args(g) ==
    /\ pc = "idle"
    /\ ReadReturns(IF ~Hashable(g) THEN "TypeError" ELSE "list")

\* is_healthy (storage.py:386-414): what os.access answers is the
\* environment's; every exception is caught.
is_healthy ==
    /\ pc = "idle"
    /\ \E healthy \in {"True", "False"} : ReadReturns(healthy)

NextArgs ==
    \/ \E g \in GroupArgs, u \in UserArgs, n \in UsernameArgs, k \in NicknameArgs :
          add_args(g, u, n, k) /\ UNCHANGED tasks
    \/ \E g \in GroupArgs, u \in UserArgs, k \in NewNicknameArgs : update_args(g, u, k) /\ UNCHANGED tasks
    \/ \E g \in GroupArgs, u \in UserArgs : remove_args(g, u) /\ UNCHANGED tasks
    \/ \E g \in GroupArgs, u \in UserArgs : get_args(g, u) /\ UNCHANGED tasks
    \/ \E g \in GroupArgs, u \in UserArgs : has_args(g, u) /\ UNCHANGED tasks
    \/ \E g \in GroupArgs : count_args(g) /\ UNCHANGED tasks
    \/ \E g \in GroupArgs : get_all_args(g) /\ UNCHANGED tasks
    \/ is_healthy /\ UNCHANGED tasks
    \/ Restart /\ UNCHANGED tasks

SpecArgs == Init /\ [][NextArgs]_vars

\* ------------------------------------------- the commands, on the event loop

\* Every Store variable: what a command that makes no mutating call leaves alone.
store == <<data, file, tmp, clock, pc, attempt, ret, log, saved, durable, fellBack, calls>>

\* The chats a message may come from (aiogram.enums.ChatType, middleware.py:25).
allowed_chat_types == {"group", "supergroup"}

Chats ==
    { [type |-> "group", id |-> -1],
      [type |-> "supergroup", id |-> -2],
      [type |-> "private", id |-> 1],
      [type |-> "channel", id |-> -3] }

\* message.from_user: an id and a username, "" for a user that has set none.
Senders == { [id |-> 1, username |-> "alice"], [id |-> 2, username |-> ""] }

\* The words after the command: none, a nickname, another one, and one that
\* matches a pattern of validation.py:119-136.
ArgLists == { <<>>, <<"Ally">>, <<"Al">>, <<"<script">> }

Message(chat, from, command, args) ==
    [chat |-> chat, from_user |-> from, command |-> command, args |-> args]

\* The messages that arrive: every command with every argument from the
\* group, an /add from each of the other chats, one from a user of the
\* group who has no username, and an /all from the group.
Messages ==
    { Message(c, f, cmd, a) : c \in {ch \in Chats : ch.type = "group"},
                              f \in {s \in Senders : s.id = 1},
                              cmd \in {"/add", "/change", "/remove"}, a \in ArgLists }
    \cup { Message(c, f, "/add", <<"Ally">>) : c \in {ch \in Chats : ch.type # "group"},
                                               f \in {s \in Senders : s.id = 1} }
    \cup { Message(c, f, "/add", <<"Ally">>) : c \in {ch \in Chats : ch.type = "group"},
                                               f \in Senders }
    \cup { Message(c, f, "/all", <<>>) : c \in {ch \in Chats : ch.type = "group"},
                                         f \in {s \in Senders : s.id = 1} }

\* GroupChatMiddleware._is_group_chat, middleware.py:77-87.
_is_group_chat(m) == m.chat.type \in allowed_chat_types

\* The characters of a str() result as one string.
RECURSIVE Text(_)
Text(cs) == IF cs = <<>> THEN "" ELSE Head(cs) \o Text(Tail(cs))

\* data["username"], middleware.py:156.
UsernameOf(from) == IF from.username # "" THEN from.username ELSE "user_" \o Text(str(from.id))

\* validate_user_context, validation.py:148-180, for ids that are ints and a
\* username made of letters, digits and underscores: None when valid.
validate_user_context(user_id, username, group_id) ==
    IF username = "" THEN "Invalid username"
    ELSE IF user_id <= 0 THEN "Invalid user ID format"
    ELSE IF group_id >= 0 THEN "Invalid group ID format"
    ELSE "None"

\* sanitize_command_args, validation.py:183-207: empty words are dropped
\* (control characters are not among the words here).
sanitize_command_args(args) == SelectSeq(args, LAMBDA a : a # "")

\* The words that match one of the suspicious_patterns (validation.py:119-136).
Suspicious == {"<script"}

\* validate_nickname, validation.py:51-105, on words of allowed characters.
validate_nickname(nickname) ==
    /\ nickname \notin Suspicious
    /\ nickname # ""
    /\ Len(nickname) <= MAX_NICKNAME_LENGTH

\* " ".join(sanitized_args) for one word (add.py:74, change.py:96).
Join(args) == args[1]

\* What message.answer is asked to send: which text, and the nickname it names.
Reply(kind, nick) == [kind |-> kind, nick |-> nick]

NoReply == Reply("none", "")

\* A coroutine: where it stands, its message, data["group_id"], whether the
\* command handler was entered, the Store methods it has called, the answer
\* it is awaiting, the answers its except clauses give if that one raises,
\* how it ended, and how many of its message.answer calls have returned.
Task(where, m, g, entered, called, reply, chain, result) ==
    [pc |-> where, msg |-> m, group_id |-> g, reached |-> entered, called |-> called,
     reply |-> reply, chain |-> chain, result |-> result, sent |-> 0]

\* The dispatcher creates a coroutine for a message whose command matches.
receive(t, m) ==
    /\ tasks[t].pc = "free"
    /\ tasks' = [tasks EXCEPT ![t] = Task("new", m, 0, FALSE, <<>>, NoReply, <<>>, "pending")]
    /\ UNCHANGED store

\* A middleware that lets every chat through.
GroupChatMiddleware_open(t) ==
    /\ tasks[t].pc = "new"
    /\ tasks' = [tasks EXCEPT ![t] = [@ EXCEPT !.pc = "handler", !.group_id = tasks[t].msg.chat.id]]
    /\ UNCHANGED store

\* GroupChatMiddleware.__call__, middleware.py:44-75: up to the await of the
\* notice, or up to the call of the handler.
GroupChatMiddleware(t) ==
    /\ tasks[t].pc = "new"
    /\ tasks' = [tasks EXCEPT ![t] =
                    IF ~_is_group_chat(@.msg)
                    THEN [@ EXCEPT !.pc = "answering", !.reply = Reply("group_only", "")]
                    ELSE [@ EXCEPT !.pc = "handler", !.group_id = tasks[t].msg.chat.id]]
    /\ UNCHANGED store

\* The handler awaits message.answer(reply) after calling the Store methods
\* called; chain is what its except clauses answer if an answer raises.
Answer(t, called, reply, chain) ==
    tasks' = [tasks EXCEPT ![t] = [@ EXCEPT !.pc = "answering", !.reached = TRUE,
                                              !.called = called, !.reply = reply,
                                              !.chain = chain]]

\* A handler that returns before it calls the Store (add.py:47-80).
Early(t, kind) == Answer(t, <<>>, Reply(kind, ""), <<"unknown_error">>) /\ UNCHANGED store

\* An /add handler that adds without looking for a record first.
handle_add_command_blind(t) ==
    /\ tasks[t].pc = "handler"
    /\ tasks[t].msg.command = "/add"
    /\ LET m == tasks[t].msg
           group_id == tasks[t].group_id
           user_id == m.from_user.id
           username == UsernameOf(m.from_user)
           sanitized_args == sanitize_command_args(m.args)
       IN  IF validate_user_context(user_id, username, group_id) # "None"
           THEN Early(t, "validation_error")
           ELSE IF sanitized_args = <<>> THEN Early(t, "missing_parameter")
           ELSE IF ~validate_nickname(Join(sanitized_args)) THEN Early(t, "validation_error")
           ELSE /\ pc = "idle"
                /\ calls < MaxCalls
                /\ \E now \in Readings :
                      /\ clock' = now
                      /\ SaveAndReturn(add_data(data, group_id, user_id, username,
                                                Join(sanitized_args), now),
                                       Line("Added nickname", group_id, user_id))
                /\ Answer(t, <<"add_nickname">>, Reply("added", Join(sanitized_args)),
                          <<"storage_error", "unknown_error">>)

\* An /add handler that is suspended between has_nickname and add_nickname.
handle_add_command_suspending(t) ==
    /\ tasks[t].pc = "handler"
    /\ tasks[t].msg.command = "/add"
    /\ LET m == tasks[t].msg
           group_id == tasks[t].group_id
           user_id == m.from_user.id
           username == UsernameOf(m.from_user)
           sanitized_args == sanitize_command_args(m.args)
       IN  IF validate_user_context(user_id, username, group_id) # "None"
           THEN Early(t, "validation_error")
           ELSE IF sanitized_args = <<>> THEN Early(t, "missing_parameter")
           ELSE IF ~validate_nickname(Join(sanitized_args)) THEN Early(t, "validation_error")
           ELSE IF tasks[t].called = <<>> /\ has_nickname(data, group_id, user_id)
           THEN /\ Answer(t, <<"has_nickname", "get_nickname">>,
                          Reply("duplicate_nickname", get_nickname(data, group_id, user_id).nickname),
                          <<"storage_error", "unknown_error">>)
                /\ UNCHANGED store
           ELSE IF tasks[t].called = <<>>
           THEN /\ tasks' = [tasks EXCEPT ![t] = [@ EXCEPT !.called = <<"has_nickname">>]]
                /\ UNCHANGED store
           ELSE /\ add_nickname(group_id, user_id, username, Join(sanitized_args))
                /\ Answer(t, <<"has_nickname", "add_nickname">>,
                          IF ret' = "True" THEN Reply("added", Join(sanitized_args))
                                           ELSE Reply("storage_error", ""),
                          <<"storage_error", "unknown_error">>)

\* handle_add_command, add.py:40-134, up to its first await: the Store calls
\* of a handler all come before it.
handle_add_command(t) ==
    /\ tasks[t].pc = "handler"
    /\ tasks[t].msg.command = "/add"
    /\ LET m == tasks[t].msg
           group_id == tasks[t].group_id
           user_id == m.from_user.id
           username == UsernameOf(m.from_user)
           sanitized_args == sanitize_command_args(m.args)
       IN  IF validate_user_context(user_id, username, group_id) # "None"
           THEN Early(t, "validation_error")
           ELSE IF sanitized_args = <<>> THEN Early(t, "missing_parameter")
           ELSE IF ~validate_nickname(Join(sanitized_args)) THEN Early(t, "validation_error")
           ELSE IF has_nickname(data, group_id, user_id)
           THEN /\ Answer(t, <<"has_nickname", "get_nickname">>,
                          Reply("duplicate_nickname", get_nickname(data, group_id, user_id).nickname),
                          <<"storage_error", "unknown_error">>)
                /\ UNCHANGED store
           ELSE /\ add_nickname(group_id, user_id, username, Join(sanitized_args))
                /\ Answer(t, <<"has_nickname", "add_nickname">>,
                          IF ret' = "True" THEN Reply("added", Join(sanitized_args))
                                           ELSE Reply("storage_error", ""),
                          <<"storage_error", "unknown_error">>)

\* A /change handler that updates whatever the new nickname is.
handle_change_command_always(t) ==
    /\ tasks[t].pc = "handler"
    /\ tasks[t].msg.command = "/change"
    /\ LET m == tasks[t].msg
           group_id == tasks[t].group_id
           user_id == m.from_user.id
           username == UsernameOf(m.from_user)
           sanitized_args == sanitize_command_args(m.args)
       IN  IF validate_user_context(user_id, username, group_id) # "None"
           THEN Early(t, "validation_error")
           ELSE IF sanitized_args = <<>> THEN Early(t, "missing_parameter")
           ELSE IF ~validate_nickname(Join(sanitized_args)) THEN Early(t, "validation_error")
           ELSE /\ update_nickname(group_id, user_id, Join(sanitized_args))
                /\ Answer(t, <<"has_nickname", "get_nickname", "update_nickname">>,
                          IF ret' = "True" THEN Reply("changed", Join(sanitized_args))
                                           ELSE Reply("storage_error", ""),
                          <<"storage_error", "unknown_error">>)

\* handle_change_command, change.py:40-158, up to its first await.
handle_change_command(t) ==
    /\ tasks[t].pc = "handler"
    /\ tasks[t].msg.command = "/change"
    /\ LET m == tasks[t].msg
           group_id == tasks[t].group_id
           user_id == m.from_user.id
           username == UsernameOf(m.from_user)
           sanitized_args == sanitize_command_args(m.args)
           old_nickname == get_nickname(data, group_id, user_id).nickname
       IN  IF validate_user_context(user_id, username, group_id) # "None"
           THEN Early(t, "validation_error")
           ELSE IF ~has_nickname(data, group_id, user_id)
           THEN /\ Answer(t, <<"has_nickname">>, Reply("nickname_not_found", ""),
                          <<"storage_error", "unknown_error">>)
                /\ UNCHANGED store
           ELSE IF sanitized_args = <<>>
           THEN /\ Answer(t, <<"has_nickname", "get_nickname">>,
                          Reply("missing_parameter", old_nickname), <<"unknown_error">>)
                /\ UNCHANGED store
           ELSE IF ~validate_nickname(Join(sanitized_args))
           THEN /\ Answer(t, <<"has_nickname">>, Reply("validation_error", ""),
                          <<"unknown_error">>)
                /\ UNCHANGED store
           ELSE IF Join(sanitized_args) = old_nickname
           THEN /\ Answer(t, <<"has_nickname", "get_nickname">>,
                          Reply("already_set", old_nickname), <<"unknown_error">>)
                /\ UNCHANGED store
           ELSE /\ update_nickname(group_id, user_id, Join(sanitized_args))
                /\ Answer(t, <<"has_nickname", "get_nickname", "update_nickname">>,
                          IF ret' = "True" THEN Reply("changed", Join(sanitized_args))
                                           ELSE Reply("storage_error", ""),
                          <<"storage_error", "unknown_error">>)

\* A /remove handler that asks the Store for the record without has_nickname.
handle_remove_command_direct(t) ==
    /\ tasks[t].pc = "handler"
    /\ tasks[t].msg.command = "/remove"
    /\ LET m == tasks[t].msg
           group_id == tasks[t].group_id
           user_id == m.from_user.id
           username == UsernameOf(m.from_user)
       IN  IF validate_user_context(user_id, username, group_id) # "None"
           THEN Early(t, "validation_error")
           ELSE /\ remove_nickname(group_id, user_id)
                /\ Answer(t, <<"get_nickname", "remove_nickname">>,
                          IF ret' = "True" THEN Reply("removed", "")
                                           ELSE Reply("nickname_not_found", ""),
                          <<"storage_error", "unknown_error">>)

\* handle_remove_command, remove.py:39-116, up to its first await.
handle_remove_command(t) ==
    /\ tasks[t].pc = "handler"
    /\ tasks[t].msg.command = "/remove"
    /\ LET m == tasks[t].msg
           group_id == tasks[t].group_id
           user_id == m.from_user.id
           username == UsernameOf(m.from_user)
       IN  IF validate_user_context(user_id, username, group_id) # "None"
           THEN Early(t, "validation_error")
           ELSE IF ~has_nickname(data, group_id, user_id)
           THEN /\ Answer(t, <<"has_nickname">>, Reply("nickname_not_found", ""),
                          <<"storage_error", "unknown_error">>)
                /\ UNCHANGED store
           ELSE /\ remove_nickname(group_id, user_id)
                /\ Answer(t, <<"has_nickname", "get_nickname", "remove_nickname">>,
                          IF ret' = "True"
                          THEN Reply("removed", get_nickname(data, group_id, user_id).nickname)
                          ELSE Reply("storage_error", ""),
                          <<"storage_error", "unknown_error">>)

\* A handler without the return after its answers: when message.answer has
\* returned it goes on to the next answer below.
answer_returns_on(t) ==
    /\ tasks[t].pc = "answering"
    /\ tasks' = [tasks EXCEPT ![t] =
                    IF @.chain = <<>>
                    THEN [@ EXCEPT !.pc = "done", !.result = "None", !.sent = @ + 1]
                    ELSE [@ EXCEPT !.reply = Reply(Head(tasks[t].chain), ""),
                                   !.chain = Tail(tasks[t].chain), !.sent = @ + 1]]
    /\ UNCHANGED store

\* The lines of the /all answer (all.py:67-71), joined by "\n" (all.py:79).
RECURSIVE nickname_list(_, _)
nickname_list(nicknames, index) ==
    IF index > Len(nicknames) THEN ""
    ELSE Text(str(index)) \o ". @" \o nicknames[index].username \o " - "
            \o nicknames[index].nickname
            \o (IF index < Len(nicknames) THEN "\n" ELSE "")
            \o nickname_list(nicknames, index + 1)

\* handle_all_command, all.py:25-100, up to its first await.
handle_all_command(t) ==
    /\ tasks[t].pc = "handler"
    /\ tasks[t].msg.command = "/all"
    /\ LET group_id == tasks[t].group_id
           nicknames == get_all_nicknames(data, group_id)
       IN  IF group_id = 0
           THEN Answer(t, <<>>, Reply("unable_to_process", ""), <<"unknown_error">>)
           ELSE IF nicknames = <<>>
           THEN Answer(t, <<"get_all_nicknames">>, Reply("no_nicknames", ""),
                       <<"unknown_error">>)
           ELSE Answer(t, <<"get_all_nicknames">>,
                       Reply("all_nicknames", nickname_list(nicknames, 1)),
                       <<"unknown_error">>)
    /\ UNCHANGED store

\* message.answer returns: the handler, and the middleware that awaited it,
\* return None.
answer_returns(t) ==
    /\ tasks[t].pc = "answering"
    /\ tasks' = [tasks EXCEPT ![t] = [@ EXCEPT !.pc = "done", !.result = "None",
                                              !.sent = @ + 1]]
    /\ UNCHANGED store

\* message.answer raises: the innermost except clause answers in its turn
\* (add.py:93-95, 128-134); outside every try the exception goes to the
\* dispatcher (middleware.py:57).
answer_raises(t) ==
    /\ tasks[t].pc = "answering"
    /\ tasks' = [tasks EXCEPT ![t] =
                    IF @.chain = <<>>
                    THEN [@ EXCEPT !.pc = "done", !.result = "raised"]
                    ELSE [@ EXCEPT !.reply = Reply(Head(tasks[t].chain), ""),
                                   !.chain = Tail(tasks[t].chain)]]
    /\ UNCHANGED store

\* The event loop runs one coroutine from an await to its next one.
NextBot ==
    \/ \E t \in TaskIds, m \in Messages : receive(t, m)
    \/ \E t \in TaskIds : GroupChatMiddleware(t)
    \/ \E t \in TaskIds : handle_add_command(t)
    \/ \E t \in TaskIds : handle_change_command(t)
    \/ \E t \in TaskIds : handle_remove_command(t)
    \/ \E t \in TaskIds : handle_all_command(t)
    \/ \E t \in TaskIds : answer_returns(t)
    \/ \E t \in TaskIds : answer_raises(t)

SpecBot == Init /\ [][NextBot]_vars

\* ------------------------------------------------------------- the listings

\* What a caller holds once get_all_nicknames(g) has returned list l to it.
Listing(g, l) == [pc |-> "listed", group_id |-> g, result |-> l]

\* A get_all_nicknames that sorts and then leaves the group's dict rebuilt
\* in the opposite order.
get_all_call_rebuilding(t, g) ==
    /\ pc = "idle"
    /\ tasks' = [tasks EXCEPT ![t] = Listing(g, get_all_nicknames(data, g))]
    /\ ret' = "list"
    /\ data' = IF ~DictHas(data, g) THEN data
               ELSE DictSet(data, g, [i \in 1..Len(DictGet(data, g)) |->
                                         DictGet(data, g)[Len(DictGet(data, g)) + 1 - i]])
    /\ UNCHANGED <<file, tmp, clock, pc, attempt, log, saved, durable, fellBack, calls>>

\* Caller t calls get_all_nicknames(g) (storage.py:246-262) and keeps the list.
get_all_call(t, g) ==
    /\ pc = "idle"
    /\ tasks' = [tasks EXCEPT ![t] = Listing(g, get_all_nicknames(data, g))]
    /\ ret' = "list"
    /\ UNCHANGED <<data, file, tmp, clock, pc, attempt, log, saved, durable, fellBack, calls>>

\* A mutating call that returned True was made: the lists the callers hold
\* are from before it.
Mutated == tasks' = IF ret' = "True" THEN NoTasks ELSE tasks

\* One Store, its mutating calls and the listings between them.
NextList ==
    \/ \E g \in GroupIds, u \in UserIds, n \in Usernames, k \in Nicknames :
          add_nickname(g, u, n, k) /\ Mutated
    \/ \E g \in GroupIds, u \in UserIds, k \in NewNicknames : update_nickname(g, u, k) /\ Mutated
    \/ \E g \in GroupIds, u \in UserIds : remove_nickname(g, u) /\ Mutated
    \/ \E t \in TaskIds, g \in GroupIds : get_all_call(t, g)

SpecList == Init /\ [][NextList]_vars

\* ------------------------------------------------------ the unsaved changes

\* How the file stands to the map since the Store was constructed: "unsaved"
\* after a mutating call whose save failed, "caught_up" after the first save
\* that succeeded since, "saved" after any other save that succeeded.
Behind(how) == [pc |-> how]

\* A call was made: one that was refused saved nothing and changes nothing.
Tracked ==
    tasks' = [tasks EXCEPT ![1] =
                 Behind(IF calls' = calls THEN tasks[1].pc
                        ELSE IF saved' = "failed" THEN "unsaved"
                        ELSE IF tasks[1].pc = "unsaved" THEN "caught_up"
                        ELSE "saved")]

\* The mutating calls of one Store after another, each with its save.
NextCatchUp ==
    \/ \E g \in GroupIds, u \in UserIds, n \in Usernames, k \in Nicknames :
          add_nickname(g, u, n, k) /\ Tracked
    \/ \E g \in GroupIds, u \in UserIds, k \in NewNicknames : update_nickname(g, u, k) /\ Tracked
    \/ \E g \in GroupIds, u \in UserIds : remove_nickname(g, u) /\ Tracked
    \/ Restart /\ tasks' = NoTasks

SpecCatchUp == Init /\ [][NextCatchUp]_vars

\* ---------------------------------------------------- the removed and re-added

\* The names and nicknames a user may come back with: those of the file's
\* records, and others.
Renamings ==
    { [username |-> "alice", nickname |-> "Ally"], [username |-> "bob", nickname |-> "Al"] }

\* Removes and adds on one Store.
NextReAdd ==
    \/ \E g \in GroupIds, u \in UserIds, a \in Renamings :
          add_nickname(g, u, a.username, a.nickname) /\ UNCHANGED tasks
    \/ \E g \in GroupIds, u \in UserIds : remove_nickname(g, u) /\ UNCHANGED tasks

SpecReAdd == Init /\ [][NextReAdd]_vars

\* ------------------------------------------------------------- the claims

\* The calls of one (group, user), as steps of Spec.  Every call logs a line
\* that names its group and user: the first conjunct follows from the action
\* and is there to settle the other steps at once.
AddCall(g, u) ==
    /\ log' = Line(log'.line, g, u)
    /\ \E n \in Usernames, k \in Nicknames : add_nickname(g, u, n, k)

UpdateCall(g, u) ==
    /\ log' = Line(log'.line, g, u)
    /\ \E k \in NewNicknames : update_nickname(g, u, k)

RemoveCall(g, u) ==
    /\ log' = Line(log'.line, g, u)
    /\ remove_nickname(g, u)

\* What has, get, getAll and count show of group g.
SameReads(d1, d2, g) ==
    /\ get_all_nicknames(d1, g) = get_all_nicknames(d2, g)
    /\ get_group_count(d1, g) = get_group_count(d2, g)
    /\ \A u \in Users : /\ has_nickname(d1, g, u) = has_nickname(d2, g, u)
                       /\ get_nickname(d1, g, u) = get_nickname(d2, g, u)

\* The users getAll lists for group g, in its order.
UserOrder(d, g) ==
    [i \in 1..Len(get_all_nicknames(d, g)) |-> get_all_nicknames(d, g)[i].user_id]

Without(seq, u) == SelectSeq(seq, LAMBDA x : x # u)

\* C1. Round trip: once the save of the last mutating call has succeeded, a
\* fresh Store that reads the file shows the same has, get (all four fields)
\* and getAll (same records, same order) for every group and user.
C1_RoundTrip ==
    saved = "ok" =>
        \A g \in GroupIds :
            /\ get_all_nicknames(LoadData(file), g) = get_all_nicknames(data, g)
            /\ \A u \in Users :
                  /\ has_nickname(LoadData(file), g, u) = has_nickname(data, g, u)
                  /\ get_nickname(LoadData(file), g, u) = get_nickname(data, g, u)

C1_Witness ==
    /\ saved = "ok"
    /\ log = Line("Added nickname", -1, 1)
    /\ get_group_count(data, 2) = 2
    /\ has_nickname(LoadData(file), -1, 1)

\* C2. Atomic replace: at every step of every save, failed or not, the target
\* file is what the constructor found or the last successful save left, or
\* else the whole serialization of the save in progress; it is never a
\* document cut short.
C2_AtomicReplace ==
    /\ file = durable \/ file = FileOf(Serialize(data))
    /\ file \in InitFiles \/ IsJson(file.text)

C2_Witness ==
    /\ pc = "write"
    /\ attempt > 0
    /\ Len(tmp.text) >= 1
    /\ ~IsJson(tmp.text)
    /\ file = durable
    /\ file # FileOf(Serialize(data))

\* C3. Uniqueness: an add for a (group, user) that holds a record returns
\* False and leaves the record, the map and the file as they were.
C3_Uniqueness ==
    [][\A g \in GroupIds, u \in UserIds :
          (has_nickname(data, g, u) /\ AddCall(g, u)) =>
              /\ ret' = "False"
              /\ get_nickname(data', g, u) = get_nickname(data, g, u)
              /\ UNCHANGED <<data, file>>]_vars

C3_Witness ==
    /\ log = Line("already has nickname", -1, 1)
    /\ ret = "False"
    /\ saved = "ok"
    /\ has_nickname(data, -1, 1)

\* C4. Isolation: an add, update or remove on (g, u) leaves has, get, getAll
\* and count of every other group unchanged.
C4_Isolation ==
    [][\A g \in GroupIds, u \in UserIds :
          (AddCall(g, u) \/ UpdateCall(g, u) \/ RemoveCall(g, u)) =>
              \A g2 \in GroupIds \ {g} : SameReads(data', data, g2)]_vars

\* The same user holds different nicknames in two groups.
C4_Witness ==
    /\ log = Line("Added nickname", -1, 2)
    /\ get_nickname(data, -1, 2).nickname = "Ally"
    /\ get_nickname(data, 2, 2).nickname = "Al"
    /\ ~has_nickname(data, -1, 3)

\* C5. A successful update changes the nickname field of that record alone:
\* its user_id, username and added_at, and every other record, are unchanged.
C5_UpdatePreserves ==
    [][\A g \in GroupIds, u \in UserIds, k \in NewNicknames :
          (has_nickname(data, g, u) /\ update_nickname(g, u, k)) =>
              /\ ret' = "True"
              /\ has_nickname(data', g, u)
              /\ get_nickname(data', g, u) = [get_nickname(data, g, u) EXCEPT !.nickname = k]
              /\ \A g2 \in GroupIds, u2 \in Users :
                    (g2 # g \/ u2 # u) =>
                        /\ has_nickname(data', g2, u2) = has_nickname(data, g2, u2)
                        /\ get_nickname(data', g2, u2) = get_nickname(data, g2, u2)]_vars

C5_Witness ==
    /\ log = Line("Updated nickname", 2, 2)
    /\ get_nickname(data, 2, 2) = Entry0(2, "Al", 1)
    /\ get_nickname(data, 2, 3) = Entry0(3, "Ally", 0)

\* C6. Remove is terminal: a remove of an existing record returns True and
\* the record is gone (has false, get None); on an absent record remove and
\* update return False and change nothing; an absent record of a running
\* Store comes back by a successful add only.
C6_RemoveTerminal ==
    [][\A g \in GroupIds, u \in UserIds :
          /\ (has_nickname(data, g, u) /\ RemoveCall(g, u)) =>
                 /\ ret' = "True"
                 /\ ~has_nickname(data', g, u)
                 /\ get_nickname(data', g, u) = None
          /\ (~has_nickname(data, g, u) /\ (RemoveCall(g, u) \/ UpdateCall(g, u))) =>
                 /\ ret' = "False"
                 /\ UNCHANGED data
          /\ (~has_nickname(data, g, u) /\ has_nickname(data', g, u)) =>
                 \/ AddCall(g, u) /\ ret' = "True"
                 \/ Restart]_vars

\* The record of (2, 2) was removed, and a second remove was refused.
C6_Witness ==
    /\ log = Line("No nickname to remove", 2, 2)
    /\ ret = "False"
    /\ calls = 1
    /\ UserOrder(data, 2) = <<3>>

\* C7. Ordering: a successful add puts its user last in getAll of the group,
\* a remove takes its user out and an update changes nothing of the order:
\* getAll lists the records present in the order of their adds.
C7_Ordering ==
    [][\A g \in GroupIds, u \in UserIds :
          /\ (AddCall(g, u) /\ ret' = "True") =>
                 UserOrder(data', g) = Append(UserOrder(data, g), u)
          /\ (RemoveCall(g, u) /\ ret' = "True") =>
                 UserOrder(data', g) = Without(UserOrder(data, g), u)
          /\ UpdateCall(g, u) => UserOrder(data', g) = UserOrder(data, g)]_vars

\* Three records in the order of their adds, the last two with one timestamp.
C7_Witness ==
    /\ log = Line("Added nickname", 2, 1)
    /\ UserOrder(data, 2) = <<3, 2, 1>>
    /\ get_nickname(data, 2, 1).added_at = get_nickname(data, 2, 2).added_at

\* C8. Soft persistence failure: a valid add, update or remove whose save
\* fails still returns True, and has, get, getAll and count show the change.
C8_SoftFailure ==
    [][\A g \in GroupIds, u \in UserIds :
          /\ (AddCall(g, u) /\ ~has_nickname(data, g, u) /\ saved' = "failed") =>
                 /\ ret' = "True"
                 /\ has_nickname(data', g, u)
                 /\ get_nickname(data', g, u).nickname \in Nicknames
                 /\ get_group_count(data', g) = get_group_count(data, g) + 1
                 /\ UserOrder(data', g) = Append(UserOrder(data, g), u)
          /\ (has_nickname(data, g, u) /\ saved' = "failed") =>
                 \A k \in NewNicknames :
                     update_nickname(g, u, k) =>
                         /\ ret' = "True"
                         /\ get_nickname(data', g, u).nickname = k
                         /\ get_group_count(data', g) = get_group_count(data, g)
          /\ (RemoveCall(g, u) /\ has_nickname(data, g, u) /\ saved' = "failed") =>
                 /\ ret' = "True"
                 /\ ~has_nickname(data', g, u)
                 /\ get_group_count(data', g) = get_group_count(data, g) - 1
                 /\ UserOrder(data', g) = Without(UserOrder(data, g), u)]_vars

C8_Witness ==
    /\ saved = "failed"
    /\ log = Line("Added nickname", -1, 1)
    /\ ret = "True"
    /\ has_nickname(data, -1, 1)
    /\ ~has_nickname(LoadData(file), -1, 1)

\* C9 as stated: at every call boundary memory mirrors the file (after
\* construction and after a successful save a load of the file gives the
\* in-memory map; after a failed save the file is still the last one saved).
C9_MirrorAlways ==
    /\ saved \in {"none", "ok"} => LoadData(file) = data
    /\ saved = "failed" => file = durable

\* C9, amended: the same, except after a constructor that gave up reading an
\* existing file: then memory is empty whatever the file holds, until a save
\* succeeds.
C9_Mirror ==
    /\ (saved = "ok" \/ (saved = "none" /\ ~fellBack)) => LoadData(file) = data
    /\ (saved = "none" /\ fellBack) => data = <<>>
    /\ saved = "failed" => file = durable

\* Memory is ahead of the file after a failed save.
C9_Witness ==
    /\ saved = "failed"
    /\ ~fellBack
    /\ file = durable
    /\ has_nickname(LoadData(file), 2, 2)
    /\ ~has_nickname(data, 2, 2)

\* C10. Corruption tolerance: a Store constructed on a file that holds no
\* JSON starts empty (count 0 for every group) and stays writable: the add
\* that follows returns True, get returns its record, and when its save
\* succeeds the file is a whole document from which a fresh Store loads the
\* same map.
C10_CorruptionTolerance ==
    /\ []((Corrupt(file) /\ saved = "none") =>
              /\ data = <<>>
              /\ \A g \in GroupIds : get_group_count(data, g) = 0)
    /\ [][\A g \in GroupIds, u \in UserIds, n \in Usernames, k \in Nicknames :
             (Corrupt(file) /\ saved = "none" /\ add_nickname(g, u, n, k)) =>
                 /\ ret' = "True"
                 /\ get_nickname(data', g, u) = NicknameEntry(u, n, k, isoformat(clock'))
                 /\ saved' = "ok" =>
                       /\ IsJson(file'.text)
                       /\ LoadData(file') = data'
                       /\ has_nickname(LoadData(file'), g, u)]_vars

C10_Witness ==
    /\ log = Line("Added nickname", -1, 1)
    /\ saved = "ok"
    /\ calls = 1
    /\ IsJson(file.text)
    /\ get_nickname(LoadData(file), -1, 1) = NicknameEntry(1, "alice", "Ally", isoformat(clock))

\* An entry of a file that the load keeps: an integer key and an object with
\* the four fields of a NicknameEntry and no other.
WellFormed(it) ==
    /\ IsInt(it.key)
    /\ IsDict(it.val)
    /\ DOMAIN it.val.of = required_fields

\* _load_data has returned after reading and converting a document.
Loaded ==
    /\ pc = "idle"
    /\ log = Line("Successfully loaded data", 0, 0)
    /\ file.exists
    /\ IsJson(file.text)

\* C11. Partial-entry skipping: after the load of a document, in every group
\* that is loaded, an entry whose key is no integer, whose value is no object
\* or which lacks a required field is absent, and every well-formed entry of
\* the same group and of the other groups is present with the fields the file
\* gives it; the group counts its well-formed entries.
C11_PartialEntrySkipping ==
    Loaded =>
        \A i \in 1..Len(Members(file.text)) :
            LET m == Members(file.text)[i]
            IN (IsInt(m.key) /\ IsDict(m.val)) =>
                  /\ \A j \in 1..Len(m.val.of) :
                        LET it == m.val.of[j]
                        IN IF WellFormed(it)
                           THEN /\ has_nickname(data, int(m.key), int(it.key))
                                /\ get_nickname(data, int(m.key), int(it.key)) = it.val.of
                           ELSE IsInt(it.key) => ~has_nickname(data, int(m.key), int(it.key))
                  /\ get_group_count(data, int(m.key)) =
                        Cardinality({j \in 1..Len(m.val.of) : WellFormed(m.val.of[j])})

\* A group whose first entry lacks the nickname field and whose second is
\* well formed, beside another group: the second entry and the other group
\* are loaded.
C11_Witness ==
    /\ Loaded
    /\ Len(Members(file.text)) = 2
    /\ Len(Members(file.text)[1].val.of) = 2
    /\ Members(file.text)[1].val.of[1].key = str(4)
    /\ Members(file.text)[1].val.of[2].key = str(1)
    /\ get_group_count(data, 2) = 1
    /\ has_nickname(data, 2, 1)
    /\ ~has_nickname(data, 2, 4)
    /\ has_nickname(data, -1, 1)

\* The group ids a document names as keys.
FileKeys(f) == {f.text[i].key : i \in {j \in 1..Len(f.text) : f.text[j].t = "member"}}

\* C12. Group cleanup on remove: a remove that deletes the last record of
\* group g leaves count(g) = 0 and getAll(g) empty, g is no key of the map
\* any more, and when the save of that call succeeds the file it wrote has no
\* member for g.
C12_GroupCleanup ==
    [][\A g \in GroupIds, u \in UserIds :
          (RemoveCall(g, u) /\ has_nickname(data, g, u) /\ get_group_count(data, g) = 1) =>
              /\ get_group_count(data', g) = 0
              /\ get_all_nicknames(data', g) = <<>>
              /\ g \notin DictKeys(data')
              /\ saved' = "ok" => str(g) \notin FileKeys(file')]_vars

\* The only record of group -1 was removed and the save succeeded, while
\* group 2 keeps its records.
C12_Witness ==
    /\ log = Line("Removed nickname", -1, 1)
    /\ saved = "ok"
    /\ calls = 2
    /\ -1 \notin DictKeys(data)
    /\ FileKeys(file) = {str(2)}
    /\ get_group_count(data, 2) = 2

\* C13. No dangling empty conversation: in every state of the Store, after
\* construction from any file and after any calls, no group id of the map
\* maps to an empty user map.
C13_NoDanglingGroup == \A i \in 1..Len(data) : Len(data[i].v) > 0

\* C14. No exception escapes the Store: whatever the arguments and whatever
\* file the Store was loaded from, add, get, getAll, update, remove, has,
\* count and isHealthy return a value; none raises to its caller.
C14_NoExceptionEscapes == ret # "TypeError"

\* C15. Nickname bounds: in every state, the nickname of every stored record
\* is non-empty and no longer than MAX_NICKNAME_LENGTH, whether the record
\* came from add, from update or from the file.
C15_NicknameBounds ==
    \A i \in 1..Len(data) :
        \A j \in 1..Len(data[i].v) :
            /\ data[i].v[j].v.nickname # ""
            /\ Len(data[i].v[j].v.nickname) <= MAX_NICKNAME_LENGTH

\* The writing calls alone, made with arguments of any type.
NextCalls ==
    \/ \E g \in GroupArgs, u \in UserArgs, n \in UsernameArgs, k \in NicknameArgs :
           add_args(g, u, n, k) /\ UNCHANGED tasks
    \/ \E g \in GroupArgs, u \in UserArgs, k \in NewNicknameArgs : update_args(g, u, k) /\ UNCHANGED tasks
    \/ \E g \in GroupArgs, u \in UserArgs : remove_args(g, u) /\ UNCHANGED tasks
    \/ Restart /\ UNCHANGED tasks

SpecCalls == Init /\ [][NextCalls]_vars

\* An argument that is no int; one that is no non-empty str.
BadId(x) == ~IsIntArg(x)

BadName(x) == ~IsStrArg(x) \/ x.v = ""

\* A call returned False before it touched anything: no save was started,
\* and the map, its keys and the files are as they were.
NothingChanged ==
    /\ ret' = "False"
    /\ DictKeys(data') = DictKeys(data)
    /\ UNCHANGED <<data, file, tmp, saved, durable, calls, pc>>

\* C16. Input errors change nothing: add, update or remove called with a
\* group or user id that is no int, or with a username or nickname that is
\* empty or no str, returns False, starts no save, and leaves the map, its
\* group keys and the file unchanged.
C16_InputErrors ==
    [][\/ NothingChanged
       \/ \A g \in GroupArgs, u \in UserArgs :
             /\ \A n \in UsernameArgs, k \in NicknameArgs :
                   ~((BadId(g) \/ BadId(u) \/ BadName(n) \/ BadName(k)) /\ add_args(g, u, n, k))
             /\ \A k \in NewNicknameArgs :
                   ~((BadId(g) \/ BadId(u) \/ BadName(k)) /\ update_args(g, u, k))
             /\ ~((BadId(g) \/ BadId(u)) /\ remove_args(g, u))]_vars

\* A call with a bad id was refused on a Store that holds a saved record.
C16_Witness ==
    /\ log = Line("Invalid ID types", 0, 0)
    /\ ret = "False"
    /\ calls = 1
    /\ saved = "ok"
    /\ has_nickname(data, 2, 1)

\* C17. Duplicate and absence errors change nothing: add for a pair that has
\* a record, and update or remove for a pair that has none, return False,
\* start no save, and leave the map and the file unchanged.
C17_DuplicateAbsence ==
    [][\/ NothingChanged
       \/ \A g \in GroupIds, u \in UserIds :
             IF has_nickname(data, g, u)
             THEN \A n \in Usernames, k \in Nicknames : ~add_begin(g, u, n, k)
             ELSE /\ \A k \in NewNicknames : ~update_begin(g, u, k)
                  /\ ~remove_begin(g, u)]_vars

\* An add was refused for a pair that has a record, and an update for a pair
\* that has none.
C17_Witness ==
    /\ pc = "idle"
    /\ ret = "False"
    /\ \/ log = Line("already has nickname", 2, 2) /\ has_nickname(data, 2, 2)
       \/ log = Line("No existing nickname", -1, 1) /\ ~has_nickname(data, -1, 1)

\* C18. Bounded save: a save makes at most max_retries write attempts; a
\* filesystem error leads to another attempt until the last one fails, after
\* which the save returns failure; any other error ends the save at once with
\* failure; so every call that entered a save eventually returns.
C18_BoundedSave ==
    /\ [](attempt \in 0..(max_retries - 1))
    /\ [][/\ (save_oserror /\ attempt < max_retries - 1)
                => (attempt' = attempt + 1 /\ pc' = "open" /\ saved' = saved)
          /\ (save_oserror /\ attempt = max_retries - 1)
                => (pc' = "idle" /\ saved' = "failed")
          /\ save_valueerror => (pc' = "idle" /\ saved' = "failed")]_vars
    /\ (pc # "idle") ~> (pc = "idle" /\ ret # "none")

\* The last attempt of a save is about to rename the temporary file.
C18_Witness ==
    /\ pc = "replace"
    /\ attempt = max_retries - 1
    /\ ret = "none"

\* A dict of groups, each a dict of NicknameEntry objects, with integer keys.
IsMapping(d) ==
    /\ \A i, j \in 1..Len(d) : d[i].k = d[j].k => i = j
    /\ \A i \in 1..Len(d) :
          /\ d[i].k \in Int
          /\ \A j, l \in 1..Len(d[i].v) : d[i].v[j].k = d[i].v[l].k => j = l
          /\ \A j \in 1..Len(d[i].v) :
                /\ d[i].v[j].k \in Int
                /\ DOMAIN d[i].v[j].v = required_fields

\* What holds of the load whether or not a parse error is tried again:
\* construction ends, with a mapping that is empty or the one of the file;
\* no more than max_retries attempts; no file gives the empty mapping at
\* once; a read error is tried again until the last attempt and then gives
\* the empty mapping.
LoadEnds ==
    /\ <>(pc = "idle")
    /\ [](attempt \in 0..(max_retries - 1))
    /\ [](pc = "idle" => /\ IsMapping(data)
                         /\ data \in {<<>>, LoadData(file)}
                         /\ (~file.exists \/ ~IsJson(file.text)) => data = <<>>)
    /\ [][/\ (load_ok /\ ~file.exists) => (pc' = "idle" /\ data' = <<>>)
          /\ (load_oserror /\ attempt < max_retries - 1)
                => (pc' = "load" /\ attempt' = attempt + 1)
          /\ (load_oserror /\ attempt = max_retries - 1)
                => (pc' = "idle" /\ data' = <<>>)]_vars

C20_CrashConsistency ==
    [][Restart =>
          /\ \/ file = durable
             \/ pc = "return" /\ file = FileOf(Serialize(data))
          /\ file' = file
          /\ data' \in {LoadData(file), <<>>}
          /\ ~fellBack' => data' = LoadData(file)]_vars

\* A new Store was constructed next to a temporary file that a save left half
\* written: the mutation of that save is lost and the Store holds the file.
C20_Witness ==
    /\ pc = "idle"
    /\ saved = "none"
    /\ log = Line("Successfully loaded data", 0, 0)
    /\ calls = 1
    /\ tmp.exists
    /\ Len(tmp.text) >= 1
    /\ ~IsJson(tmp.text)
    /\ file = durable
    /\ data = LoadData(file)

\* The coroutines that hold a command.
Live == {t \in TaskIds : tasks[t].pc # "free"}

\* C21. Group-only gating: a message whose chat type is neither group nor
\* supergroup never enters a command handler and its coroutine never changes
\* the Store; the middleware answers with the group-only notice and returns
\* None once the answer is sent.  A group or supergroup message goes on to
\* the handler with group_id set to the chat id.
C21_GroupOnly ==
    /\ [](\A t \in Live :
             IF ~_is_group_chat(tasks[t].msg)
             THEN /\ tasks[t].pc # "handler"
                  /\ ~tasks[t].reached
                  /\ tasks[t].called = <<>>
                  /\ tasks[t].pc \in {"answering", "done"}
                        => tasks[t].reply = Reply("group_only", "")
                  /\ (tasks[t].pc = "done" /\ tasks[t].result # "raised")
                        => tasks[t].result = "None"
             ELSE tasks[t].pc # "new"
                     => /\ tasks[t].pc = "handler" \/ tasks[t].reached
                        /\ tasks[t].group_id = tasks[t].msg.chat.id)
    /\ [][\A t \in Live :
             (~_is_group_chat(tasks[t].msg) /\ tasks'[t] # tasks[t]) => UNCHANGED store]_vars

\* A private message was answered with the notice, beside a group message
\* that went through its handler and changed the Store.
C21_Witness ==
    \E t, o \in Live :
        /\ tasks[t].msg.chat.type = "private"
        /\ tasks[t].pc = "done"
        /\ tasks[t].result = "None"
        /\ tasks[t].reply.kind = "group_only"
        /\ tasks[o].msg.chat.type = "supergroup"
        /\ tasks[o].reply.kind = "added"
        /\ tasks[o].group_id = -2

\* The Store methods in a list of calls.
Methods(called) == {called[i] : i \in 1..Len(called)}

\* The command of coroutine t carries one word that validate_nickname accepts.
GivesNickname(t) ==
    /\ sanitize_command_args(tasks[t].msg.args) # <<>>
    /\ validate_nickname(Join(sanitize_command_args(tasks[t].msg.args)))

\* The sender of the command of coroutine t has a record in its group.
SenderHasRecord(t) == has_nickname(data, tasks[t].group_id, tasks[t].msg.from_user.id)

\* C22. The /add handler never overwrites: when the sender has a nickname in
\* the group, the handler does not call add_nickname and the Store, the
\* stored record included, is unchanged; given a valid nickname it answers
\* with the duplicate notice that names the current nickname.
C22_AddNeverOverwrites ==
    [][\A t \in Live :
          (handle_add_command(t) /\ SenderHasRecord(t))
             => /\ UNCHANGED store
                /\ "add_nickname" \notin Methods(tasks'[t].called)
                /\ GivesNickname(t)
                      => tasks'[t].reply =
                            Reply("duplicate_nickname",
                                  get_nickname(data, tasks[t].group_id,
                                               tasks[t].msg.from_user.id).nickname)]_vars

\* An /add with another nickname from a sender whose nickname is Ally was
\* answered with the notice, and the record still says Ally.
C22_Witness ==
    \E t \in Live :
        /\ tasks[t].msg.command = "/add"
        /\ tasks[t].msg.args = <<"Al">>
        /\ tasks[t].pc = "answering"
        /\ tasks[t].reply = Reply("duplicate_nickname", "Ally")
        /\ tasks[t].called = <<"has_nickname", "get_nickname">>
        /\ get_nickname(data, -1, 1).nickname = "Ally"

\* The context the middleware hands to the handler of coroutine t is valid.
ValidContext(t) ==
    validate_user_context(tasks[t].msg.from_user.id, UsernameOf(tasks[t].msg.from_user),
                          tasks[t].group_id) = "None"

\* C23. The /change and /remove handlers are no-ops without a record: when
\* the sender has no nickname in the group, the handler answers with the
\* not-found notice, calls neither get_nickname nor update_nickname nor
\* remove_nickname, and the Store is unchanged.
C23_NoRecordNoOp ==
    [][\A t \in Live :
          (/\ handle_change_command(t) \/ handle_remove_command(t)
           /\ ValidContext(t)
           /\ ~SenderHasRecord(t))
             => /\ UNCHANGED store
                /\ tasks'[t].reply = Reply("nickname_not_found", "")
                /\ Methods(tasks'[t].called) = {"has_nickname"}]_vars

\* A /change with a new nickname and a /remove, both from a sender without a
\* record, were answered with the not-found notice.
C23_Witness ==
    \E t, o \in Live :
        /\ tasks[t].msg.command = "/change"
        /\ tasks[t].msg.args = <<"Al">>
        /\ tasks[o].msg.command = "/remove"
        /\ \A x \in {t, o} :
              /\ tasks[x].pc = "answering"
              /\ tasks[x].reply = Reply("nickname_not_found", "")
              /\ tasks[x].called = <<"has_nickname">>
        /\ ~has_nickname(data, -1, 1)

\* A top-level entry of a file that the load takes: an integer key and an
\* object as value.
GoodGroup(m) == IsInt(m.key) /\ IsDict(m.val)

\* C24. Per-conversation skipping on load: a top-level entry whose key does
\* not parse as an integer or whose value is no object is skipped as a
\* whole, and every other conversation of the file is loaded with all its
\* well-formed records, wherever in the file the bad entry stands.
C24_GroupSkipping ==
    Loaded =>
        LET ms == Members(file.text)
        IN /\ DictKeys(data) = {int(ms[i].key) : i \in {j \in 1..Len(ms) : GoodGroup(ms[j])}}
           /\ \A i \in 1..Len(ms) :
                 GoodGroup(ms[i]) =>
                    /\ \A j \in 1..Len(ms[i].val.of) :
                          WellFormed(ms[i].val.of[j]) =>
                             get_nickname(data, int(ms[i].key), int(ms[i].val.of[j].key))
                                = ms[i].val.of[j].val.of
                    /\ get_group_count(data, int(ms[i].key)) =
                          Cardinality({j \in 1..Len(ms[i].val.of) : WellFormed(ms[i].val.of[j])})

\* A file whose first entry has a value that is no object, or a key that is
\* no integer, and whose second is group 2 with two records: group 2 alone
\* is loaded, with both.
C24_Witness ==
    /\ Loaded
    /\ Len(Members(file.text)) = 2
    /\ ~GoodGroup(Members(file.text)[1])
    /\ DictKeys(data) = {2}
    /\ get_group_count(data, 2) = 2

\* C25. Per-record serialization failure: a save that meets a record it
\* cannot put into the file leaves that record out and goes on: it is not
\* ended by the record.
C25_RecordSkipped ==
    [][(pc = "write" /\ ~NextChunkEncodable) => ~save_encode_error]_vars

\* C26. Reads are pure: get_nickname, get_all_nicknames, has_nickname,
\* get_group_count and is_healthy, called with any arguments, leave the map
\* as it is (no group key is made, no record moves), leave the file and the
\* temporary file as they are, and start no save.
C26_ReadsPure ==
    [][\/ /\ data' = data
          /\ DictKeys(data') = DictKeys(data)
          /\ UNCHANGED <<file, tmp, pc, attempt, saved, durable, calls>>
       \/ /\ ~is_healthy
          /\ \A g \in GroupArgs :
                /\ ~count_args(g)
                /\ ~get_all_args(g)
                /\ \A u \in UserArgs : ~get_args(g, u) /\ ~has_args(g, u)]_vars

\* get_nickname was asked for a group the Store does not know, and the map
\* is still empty.
C26_Witness ==
    /\ ret = "None"
    /\ data = <<>>
    /\ calls = 0
    /\ saved = "none"

\* The change of get_group_count(c) over a step.
CountMoves(c, by) == get_group_count(data', c) = get_group_count(data, c) + by

\* The group has no record of any user.
NoRecords(d, c) == \A u \in Users : ~has_nickname(d, c, u)

\* C27. Count tracks mutations: get_group_count is 0 for a group with no
\* records; an add_nickname that returns True raises the count of its group
\* by exactly 1, a remove_nickname that returns True lowers it by exactly 1,
\* and update_nickname and every call that returns False leave it as it was.
\* No call moves the count of another group.
C27_CountTracks ==
    /\ [](\A c \in GroupIds : NoRecords(data, c) => get_group_count(data, c) = 0)
    /\ [][\A g \in GroupIds, u \in UserIds :
            /\ AddCall(g, u) =>
                  /\ CountMoves(g, IF ret' = "True" THEN 1 ELSE 0)
                  /\ \A c \in GroupIds \ {g} : CountMoves(c, 0)
            /\ RemoveCall(g, u) =>
                  /\ CountMoves(g, IF ret' = "True" THEN -1 ELSE 0)
                  /\ \A c \in GroupIds \ {g} : CountMoves(c, 0)
            /\ UpdateCall(g, u) => \A c \in GroupIds : CountMoves(c, 0)]_vars

\* A remove_nickname has returned True and left one record of two in the
\* group of the file.
C27_Witness ==
    /\ log = Line("Removed nickname", 2, 2)
    /\ ret = "True"
    /\ get_group_count(data, 2) = 1
    /\ get_group_count(data, -1) = 0

\* Two records of the list carry the same added_at.
HasTie(l) == \E i, j \in 1..Len(l) : i # j /\ l[i].added_at = l[j].added_at

Mutators == {"add_nickname", "update_nickname", "remove_nickname"}

\* Coroutine t has made a mutating call and awaits its first answer.
JustMutated(t) ==
    /\ Methods(tasks[t].called) \cap Mutators # {}
    /\ tasks[t].pc = "answering"
    /\ Len(tasks[t].chain) = 2

\* Two coroutines hold an /add of the same user in the same group, both with
\* a nickname that passed validation, and both have been through the handler.
SameAdd(t1, t2) ==
    /\ t1 # t2
    /\ tasks[t1].msg.command = "/add"
    /\ tasks[t2].msg.command = "/add"
    /\ tasks[t1].msg.chat = tasks[t2].msg.chat
    /\ tasks[t1].msg.from_user = tasks[t2].msg.from_user
    /\ "has_nickname" \in Methods(tasks[t1].called)
    /\ "has_nickname" \in Methods(tasks[t2].called)

\* The records of user u in group g.
RecordsOf(d, g, u) ==
    IF ~DictHas(d, g) THEN {}
    ELSE {i \in 1..Len(DictGet(d, g)) : DictGet(d, g)[i].v.user_id = u}

\* C29. Run to completion on the event loop: whenever the loop may pick a
\* coroutine, the Store is in no call and no save (no temporary write, wait
\* or rename is under way); no coroutine waits between the has_nickname of
\* its handler and the mutating call that follows, so that call is never
\* refused; and of two concurrent /add commands of the same user in the same
\* group exactly one adds, the other finds the record, and one record is
\* stored.
C29_RunToCompletion ==
    /\ pc = "idle"
    /\ attempt = 0
    /\ \A t \in Live :
          /\ tasks[t].pc \in {"new", "handler"} => tasks[t].called = <<>>
          /\ JustMutated(t) => tasks[t].reply.kind \in {"added", "changed", "removed"}
    /\ \A t1, t2 \in Live :
          SameAdd(t1, t2)
             => /\ ("add_nickname" \in Methods(tasks[t1].called))
                      # ("add_nickname" \in Methods(tasks[t2].called))
                /\ Cardinality(RecordsOf(data, tasks[t1].group_id,
                                         tasks[t1].msg.from_user.id)) = 1

\* Two /add commands of user 1 in group -1 were both in flight; one was
\* answered with the success, the other with the duplicate notice, and the
\* group holds one record.
C29_Witness ==
    /\ Live = TaskIds
    /\ SameAdd(1, 2)
    /\ tasks[1].pc = "answering"
    /\ tasks[2].pc = "answering"
    /\ tasks[1].reply = Reply("duplicate_nickname", "Ally")
    /\ tasks[2].reply = Reply("added", "Ally")
    /\ get_group_count(data, -1) = 1

\* The nickname the Store holds for the sender of the command of coroutine t.
CurrentNickname(t) ==
    get_nickname(data, tasks[t].group_id, tasks[t].msg.from_user.id).nickname

\* C30. The /change handler skips a change to the same nickname: when the new
\* nickname passes validation and equals the sender's current nickname, the
\* handler answers that it is already set, does not call update_nickname, and
\* the Store (map, file, temporary file, save state) is unchanged.
C30_ChangeSkipsNoOp ==
    [][\A t \in Live :
          (/\ handle_change_command(t)
           /\ ValidContext(t)
           /\ SenderHasRecord(t)
           /\ GivesNickname(t)
           /\ Join(sanitize_command_args(tasks[t].msg.args)) = CurrentNickname(t))
             => /\ UNCHANGED store
                /\ tasks'[t].reply = Reply("already_set", CurrentNickname(t))
                /\ "update_nickname" \notin Methods(tasks'[t].called)]_vars

\* A /change to Ally from a sender whose nickname is Ally was answered with
\* the already-set notice after the /add that saved the record, and the file
\* still is the one that /add left.
C30_Witness ==
    \E t, o \in Live :
        /\ tasks[t].msg.command = "/change"
        /\ tasks[t].msg.args = <<"Ally">>
        /\ tasks[t].pc = "answering"
        /\ tasks[t].reply = Reply("already_set", "Ally")
        /\ tasks[t].called = <<"has_nickname", "get_nickname">>
        /\ tasks[o].msg.command = "/add"
        /\ "add_nickname" \in Methods(tasks[o].called)
        /\ get_nickname(data, -1, 1).nickname = "Ally"
        /\ calls = 1
        /\ log.line = "Added nickname"

\* Coroutine t runs its command handler up to the first await.
Handles(t) ==
    \/ handle_add_command(t)
    \/ handle_change_command(t)
    \/ handle_remove_command(t)
    \/ handle_all_command(t)

AskedGroups == GroupIds \cup {-7}

\* The record is one of the list.
Listed(l, e) == \E i \in 1..Len(l) : l[i] = e

\* C32. Read operations agree: in every reachable state, for every group and
\* user, has_nickname is true exactly when get_nickname returns a record,
\* exactly when that record is in the list of get_all_nicknames; and
\* get_group_count is the length of that list.
C32_ReadsAgree ==
    \A c \in AskedGroups :
        /\ get_group_count(data, c) = Len(get_all_nicknames(data, c))
        /\ \A u \in Users :
              /\ has_nickname(data, c, u) = (get_nickname(data, c, u) # None)
              /\ has_nickname(data, c, u)
                    = Listed(get_all_nicknames(data, c), get_nickname(data, c, u))

\* A group holds two records added within one clock reading, and a record of
\* the file was removed.
C32_Witness ==
    /\ calls = 2
    /\ get_group_count(data, -1) = 2
    /\ \E i, j \in 1..2 :
          /\ i # j
          /\ get_all_nicknames(data, -1)[i].added_at = get_all_nicknames(data, -1)[j].added_at
    /\ has_nickname(data, -1, 1)
    /\ ~has_nickname(data, 2, 1)

\* C33. Key matches record: in every reachable state, a state loaded from a
\* file included, the record stored under the key of user u in a group has
\* user_id equal to u, so no two records of one group carry the same user_id.
C33_KeyMatchesRecord ==
    \A i \in 1..Len(data) :
        /\ \A j \in 1..Len(data[i].v) : data[i].v[j].v.user_id = data[i].v[j].k
        /\ \A j, k \in 1..Len(data[i].v) :
              data[i].v[j].v.user_id = data[i].v[k].v.user_id => j = k

\* C34. A later successful save catches up: after one or more mutating calls
\* whose save failed, the next mutating call whose save succeeds leaves in
\* the file the whole map, the unsaved changes included; a fresh Store that
\* loads the file holds what the map holds.
C34_CatchUp ==
    tasks[1].pc = "caught_up" =>
        /\ LoadData(file) = data
        /\ durable = file
        /\ \A g \in GroupIds : SameReads(LoadData(file), data, g)

\* The save of a first add failed, the save of a second add succeeded, and
\* the file holds both records.
C34_Witness ==
    /\ tasks[1].pc = "caught_up"
    /\ calls = 2
    /\ log = Line("Added nickname", 2, 1)
    /\ has_nickname(LoadData(file), -1, 1)
    /\ has_nickname(LoadData(file), 2, 1)

\* The place of user u in the list of get_all_nicknames, 0 when absent.
PlaceOf(d, g, u) ==
    IF \E i \in 1..Len(UserOrder(d, g)) : UserOrder(d, g)[i] = u
    THEN CHOOSE i \in 1..Len(UserOrder(d, g)) : UserOrder(d, g)[i] = u
    ELSE 0

\* C35. Re-adding creates a new record: when remove_nickname(g, u) has
\* succeeded and the add_nickname(g, u, username, nickname) that follows
\* returns True, get_nickname(g, u) is the record of that username and
\* nickname with the added_at read at this add, nothing of the removed record
\* is left, and get_all_nicknames(g) lists u after every record that was
\* there before, each of them unchanged.
C35_ReAdd ==
    [][\A g \in GroupIds, u \in UserIds :
          \/ log # Line("Removed nickname", g, u)
          \/ log' # Line("Added nickname", g, u)
          \/ \A a \in Renamings :
                add_nickname(g, u, a.username, a.nickname)
                   => /\ ret' = "True"
                      /\ ~has_nickname(data, g, u)
                      /\ get_nickname(data', g, u)
                            = NicknameEntry(u, a.username, a.nickname, isoformat(clock'))
                      /\ get_all_nicknames(data', g)
                            = Append(get_all_nicknames(data, g), get_nickname(data', g, u))
                      /\ PlaceOf(data', g, u) = get_group_count(data', g)]_vars

\* User 2 of the file, once alice with the nickname Ally, was removed and has
\* come back as bob with the nickname Al: the record is listed after the
\* file's other one and bears the time of the second add.
C35_Witness ==
    /\ log = Line("Added nickname", 2, 2)
    /\ calls = 2
    /\ get_nickname(data, 2, 3).added_at = isoformat(0)
    /\ get_nickname(data, 2, 2) = NicknameEntry(2, "bob", "Al", isoformat(clock))
    /\ UserOrder(data, 2) = <<3, 2>>
    /\ clock = 2

\* The keys of group g in dict order.
KeyOrder(d, g) ==
    IF ~DictHas(d, g) THEN <<>> ELSE [i \in 1..Len(DictGet(d, g)) |-> DictGet(d, g)[i].k]

\* C36. Listing order survives a reload: when the last save has succeeded and
\* a new Store reads the same file, get_all_nicknames returns for every group
\* the same records in the same order as before, also when two records carry
\* the same added_at: the users of a group come back in the dict order they
\* had in memory.
C36_OrderSurvivesReload ==
    [][\/ saved # "ok"
       \/ log' # Line("Successfully loaded data", 0, 0)
       \/ fellBack'
       \/ ~Restart
       \/ \A g \in GroupIds :
             /\ get_all_nicknames(data', g) = get_all_nicknames(data, g)
             /\ KeyOrder(data', g) = KeyOrder(data, g)]_vars

\* A Store has read back a group whose two records were added within one
\* clock reading, user 2 before user 1, and lists them in that order.
C36_Witness ==
    /\ saved = "none"
    /\ ~fellBack
    /\ log = Line("Successfully loaded data", 0, 0)
    /\ calls = 2
    /\ UserOrder(data, -1) = <<2, 1>>
    /\ get_nickname(data, -1, 1).added_at = get_nickname(data, -1, 2).added_at

\* The members of the file that the load takes for group c, by position.
MembersOf(c) ==
    {i \in 1..Len(Members(file.text)) :
        GoodGroup(Members(file.text)[i]) /\ int(Members(file.text)[i].key) = c}

\* The last of them.
LastOf(c) == Members(file.text)[CHOOSE i \in MembersOf(c) : \A j \in MembersOf(c) : j <= i]

\* C37. Colliding group keys on load: when two top-level keys of the file
\* with object values parse to the same integer, the loaded group holds
\* exactly the well-formed records of the key that comes later in the file,
\* with the fields that key gives them; the records under the earlier key
\* are dropped, and the map has one dict per group id and one record per user.
C37_CollidingKeys ==
    Loaded =>
        /\ \A c \in DictKeys(data) :
              /\ MembersOf(c) # {}
              /\ \A u \in LoadedUsers :
                    has_nickname(data, c, u)
                       = (\E j \in 1..Len(LastOf(c).val.of) :
                             /\ WellFormed(LastOf(c).val.of[j])
                             /\ int(LastOf(c).val.of[j].key) = u)
              /\ \A j \in 1..Len(LastOf(c).val.of) :
                    WellFormed(LastOf(c).val.of[j])
                       => get_nickname(data, c, int(LastOf(c).val.of[j].key))
                             = LastOf(c).val.of[j].val.of
              /\ get_group_count(data, c)
                    = Cardinality({j \in 1..Len(LastOf(c).val.of) :
                                      WellFormed(LastOf(c).val.of[j])})
        /\ \A i, j \in 1..Len(data) : data[i].k = data[j].k => i = j
        /\ \A i \in 1..Len(data) :
              \A j, k \in 1..Len(data[i].v) : data[i].v[j].k = data[i].v[k].k => j = k

\* A file with user 1 under the key "2" and user 2 under the key "02" was
\* loaded: group 2 holds user 2 alone.
C37_Witness ==
    /\ Loaded
    /\ Members(file.text)[1].key = str(2)
    /\ Members(file.text)[2].key = <<"0", "2">>
    /\ Members(file.text)[1].val.of = <<[key |-> str(1), val |-> asdict(Entry0(1, "Ally", 0))]>>
    /\ DictKeys(data) = {2}
    /\ ~has_nickname(data, 2, 1)
    /\ has_nickname(data, 2, 2)
    /\ get_group_count(data, 2) = 1

====
